---- MODULE Spec2Model ----
(***************************************************************************)
(* A model of splunklib/client.py: the generic resource layer (Endpoint,   *)
(* Entity, Collection, Job) over a REST transport.                         *)
(*                                                                         *)
(* Strings are TLA+ strings.  A path is a sequence of tokens in which the  *)
(* separator "/" is a token of its own, so that endswith('/') and string   *)
(* concatenation are what they are in the source.  A Python dict or Record *)
(* is a function from keys to values; a Python list that the code tells    *)
(* apart from a single record with isinstance is the record [list |-> s].  *)
(***************************************************************************)
EXTENDS Integers, Sequences, FiniteSets, TLC

VARIABLES
    ent,    \* the Entity object of the run: class, liveness, path, _state
    srv,    \* the server-side resource the entity is bound to
    coll,   \* the Collection object of the run: class, path, item factory
    store,  \* the resources of the collection on the server, in document order
    pending,\* the position of a call that is between two of its requests
    call    \* the last step: the operation, its arguments, the requests it
            \* issued, how it ended and what it returned

vars == <<ent, srv, coll, store, pending, call>>

-----------------------------------------------------------------------------
(* Python values *)

\* Python's None among scalar values
None == "None"

\* Python's None where the other values are records or lists
NoneObject == [none |-> TRUE]

\* self._state = None: the "not yet fetched" state of an Entity
NoState == NoneObject

\* what a fluent method returns: the object it was called on
Self == "self"

\* dict.get(k, dflt)
DictGet(d, k, dflt) == IF k \in DOMAIN d THEN d[k] ELSE dflt

\* the empty dict / Record
EmptyDict == <<>>

\* isinstance(v, list)
IsList(v) == "list" \in DOMAIN v

\* bool(s) of a string
Truthy(s) == s # ""

\* d restricted to the keys in ks
Restrict(d, ks) == [k \in (DOMAIN d) \cap ks |-> d[k]]

\* dict(d, **e): e's entries win
Merge(d, e) == [k \in (DOMAIN d) \cup (DOMAIN e) |->
                   IF k \in DOMAIN e THEN e[k] ELSE d[k]]

-----------------------------------------------------------------------------
(* Paths *)

Slash == "/"

\* path.endswith('/')
EndsWithSlash(p) == Len(p) > 0 /\ p[Len(p)] = Slash

PATH_DEPLOYMENT_TENANTS == <<"deployment", Slash, "tenants", Slash>>
PATH_DEPLOYMENT_SERVERS == <<"deployment", Slash, "server", Slash>>
PATH_SETTINGS == <<"server", Slash, "settings">>
PATH_SETTINGS_UPDATE == <<"server", Slash, "settings", Slash, "settings">>

\* an Endpoint that appends the separator to every path
EndpointPathAppending(path) == path \o <<Slash>>

\* Endpoint.__init__: the path always ends with the separator
EndpointPath(path) == IF EndsWithSlash(path) THEN path ELSE path \o <<Slash>>

\* "%s%s" % (self.path, relpath)
EndpointUrl(path, relpath) == path \o relpath

\* a request as the transport sees it
Req(method, path, args) == [method |-> method, path |-> path, args |-> args]

-----------------------------------------------------------------------------
(* Bounds *)

\* the largest number of leading "not ready" (204) answers of a job resource
MaxLag == 11

\* Job.read: while count < 10
MaxAttempts == 10

-----------------------------------------------------------------------------
(* The Entity classes of the model and what each defines *)

Classes == {"Entity", "SavedSearch", "Settings", "DeploymentTenant",
            "DeploymentServer", "DeploymentServerClass", "Job"}

\* the content keys a server resource of each class may carry
ContentKeys(cls) ==
    CASE cls = "Entity" -> {"disabled"}
      [] cls = "SavedSearch" -> {"search"}
      [] cls = "Settings" -> {"x"}
      [] cls = "DeploymentTenant" -> {"check-new"}
      [] cls = "DeploymentServer" -> {"whitelist.0"}
      [] cls = "DeploymentServerClass" -> {"whitelist", "endpoint"}
      [] cls = "Job" -> {"sid"}

\* the values of content fields: the empty (falsy) string and a non-empty one
ContentValues == {"", "a,b"}

Titles == {"t1"}

\* the content keys a resource of the class always has: a saved search has
\* its search string
RequiredKeys(cls) == IF cls = "SavedSearch" THEN {"search"} ELSE {}

\* every content record a resource of the class may have
Contents(cls) ==
    UNION {[ks -> ContentValues] :
              ks \in {S \in SUBSET ContentKeys(cls) : RequiredKeys(cls) \subseteq S}}

\* Entity.defaults, and DeploymentServerClass.defaults
Defaults(cls) ==
    IF cls = "DeploymentServerClass"
    THEN [k \in {"endpoint", "tmpfolder", "filterType",
                 "targetRepositoryLocation", "repositoryLocation",
                 "continueMatching"} |-> None]
    ELSE EmptyDict

\* the attributes Python's normal lookup finds on an object of the class:
\* instance attributes, methods and properties of the class and its bases
EntityMembers ==
    {"service", "path", "_state", "defaults", "get", "post", "_lookup",
     "_load_atom_entry", "_load_state", "_run_method", "refresh", "access",
     "content", "disable", "enable", "fields", "links", "name", "read",
     "reload", "state", "update"}

Members(cls) ==
    EntityMembers \cup
    CASE cls = "DeploymentServerClass" -> {"blacklist", "whitelist", "delete"}
      [] cls = "DeploymentServer" -> {"whitelist", "check_new"}
      [] cls = "DeploymentTenant" -> {"check_new"}
      [] cls = "Job" -> {"sid", "cancel", "finalize", "pause", "touch"}
      [] cls = "SavedSearch" -> {"acknowledge", "dispatch", "history",
                                 "suppressed", "suppress", "unsuppress"}
      [] OTHER -> {}

-----------------------------------------------------------------------------
(* The Atom decoder *)

ReservedKeys == {"eai:acl", "eai:attributes", "type"}

\* record((link.rel, link.href) for link in elink): a later link of the same
\* relation replaces an earlier one
LinkRecord(elink) ==
    [r \in {elink[i].rel : i \in DOMAIN elink} |->
        LET last == CHOOSE i \in DOMAIN elink :
                        /\ elink[i].rel = r
                        /\ \A j \in DOMAIN elink : elink[j].rel = r => j <= i
        IN elink[last].href]

\* metadata whose fields are None when the content has no eai:attributes
_parse_atom_metadataAbsentFields(content) ==
    LET access == DictGet(content, "eai:acl", None)
        attributes == DictGet(content, "eai:attributes", EmptyDict)
    IN [access |-> access,
        fields |-> IF "eai:attributes" \in DOMAIN content
                   THEN [required |-> DictGet(attributes, "requiredFields", <<>>),
                         optional |-> DictGet(attributes, "optionalFields", <<>>),
                         wildcard |-> DictGet(attributes, "wildcardFields", <<>>)]
                   ELSE NoneObject]

_parse_atom_metadata(content) ==
    LET access == DictGet(content, "eai:acl", None)
        attributes == DictGet(content, "eai:attributes", EmptyDict)
    IN [access |-> access,
        fields |-> [required |-> DictGet(attributes, "requiredFields", <<>>),
                    optional |-> DictGet(attributes, "optionalFields", <<>>),
                    wildcard |-> DictGet(attributes, "wildcardFields", <<>>)]]

\* a decoder that strips only the two metadata keys
_parse_atom_entryKeepingType(entry) ==
    LET title == DictGet(entry, "title", None)
        elink0 == DictGet(entry, "link", [list |-> <<>>])
        elink == IF IsList(elink0) THEN elink0.list ELSE <<elink0>>
        content0 == DictGet(entry, "content", EmptyDict)
        metadata == _parse_atom_metadata(content0)
    IN [title |-> title,
        links |-> LinkRecord(elink),
        access |-> metadata.access,
        fields |-> metadata.fields,
        content |-> Restrict(content0,
                             (DOMAIN content0) \ {"eai:acl", "eai:attributes"})]

\* a decoder that takes the link child for a list whatever it is, so that a
\* lone link record gives no link
_parse_atom_entryListOnly(entry) ==
    LET title == DictGet(entry, "title", None)
        elink0 == DictGet(entry, "link", [list |-> <<>>])
        elink == IF IsList(elink0) THEN elink0.list ELSE <<>>
        content0 == DictGet(entry, "content", EmptyDict)
        metadata == _parse_atom_metadata(content0)
    IN [title |-> title,
        links |-> LinkRecord(elink),
        access |-> metadata.access,
        fields |-> metadata.fields,
        content |-> Restrict(content0, (DOMAIN content0) \ ReservedKeys)]

_parse_atom_entry(entry) ==
    LET title == DictGet(entry, "title", None)
        elink0 == DictGet(entry, "link", [list |-> <<>>])
        elink == IF IsList(elink0) THEN elink0.list ELSE <<elink0>>
        content0 == DictGet(entry, "content", EmptyDict)
        metadata == _parse_atom_metadata(content0)
    IN [title |-> title,
        links |-> LinkRecord(elink),
        access |-> metadata.access,
        fields |-> metadata.fields,
        content |-> Restrict(content0, (DOMAIN content0) \ ReservedKeys)]

-----------------------------------------------------------------------------
(* The server and the transport *)

\* the metadata the server adds to the content of every entry
ServerMeta ==
    [k \in ReservedKeys |->
        CASE k = "eai:acl" -> "acl"
          [] k = "eai:attributes" -> [optionalFields |-> <<"x">>]
          [] k = "type" -> "text"]

\* the Atom entry the server sends for its resource, asked at path
ServerEntry(s, path) ==
    [title |-> s.title,
     link |-> [rel |-> "alternate", href |-> path],
     content |-> Merge(s.content, ServerMeta)]

\* GET: a response {status, body}, or an HTTPError raised for a status that is
\* no success.  A job resource that is not yet materialized answers 204.
ServiceGet(s, path) ==
    IF s.lag > 0 THEN [raised |-> FALSE, status |-> 204, body |-> EmptyDict]
    ELSE IF s.status # 200
         THEN [raised |-> TRUE, status |-> s.status, body |-> EmptyDict]
         ELSE [raised |-> FALSE, status |-> 200,
               body |-> [entry |-> ServerEntry(s, path)]]

\* the server after it answered a GET: one "not ready" answer fewer to give;
\* an index that is being emptied holds its events for drain answered GETs
\* more
ServerAfterGet(s) ==
    IF s.lag > 0 THEN [s EXCEPT !.lag = @ - 1]
    ELSE IF s.status = 200 /\ "drain" \in DOMAIN s /\ s.drain > 0
         THEN [s EXCEPT !.drain = @ - 1,
                        !.content.totalEventCount = IF s.drain = 1 THEN "0" ELSE @]
         ELSE s

\* POST of form fields
ServicePost(s, path, fields) ==
    IF s.status # 200
    THEN [raised |-> TRUE, status |-> s.status, body |-> EmptyDict]
    ELSE [raised |-> FALSE, status |-> 200, body |-> EmptyDict]

\* the server after a POST of fields to its resource: the fields it knows are
\* stored
ServerAfterPost(s, fields) ==
    IF s.status # 200 THEN s
    ELSE [s EXCEPT !.content =
              Merge(@, Restrict(fields, (DOMAIN fields) \cap (DOMAIN @)))]

-----------------------------------------------------------------------------
(* Entity: reading and refreshing the cached state *)

\* what an operation did: the entity and the server after it, the requests it
\* issued in order, the waits it made, how it ended ("ok" or the exception
\* raised) and what it returned
Result(e, s, reqs, sleeps, outcome, ret) ==
    [e |-> e, srv |-> s, reqs |-> reqs, sleeps |-> sleeps,
     outcome |-> outcome, ret |-> ret]

\* Entity._load_state: the entry of the response body, parsed
_load_state(response) == _parse_atom_entry(response.body.entry)

\* Entity.read: one GET on the entity's own path, decoded
EntityRead(e, s) ==
    LET Decode(url, resp) ==
            Result(e, ServerAfterGet(s), <<Req("GET", url, EmptyDict)>>, 0,
                   IF resp.raised THEN "HTTPError" ELSE "ok",
                   IF resp.raised THEN NoState ELSE _load_state(resp))
    IN Decode(EndpointUrl(e.path, <<>>),
              ServiceGet(s, EndpointUrl(e.path, <<>>)))

\* Job.read: the loop, from the iteration with the given count on
RECURSIVE JobReadLoop(_, _, _, _, _)
\* a Job.read that does not wait after the last attempt
RECURSIVE JobReadLoopNoLastWait(_, _, _, _, _)
JobReadLoopNoLastWait(e, s, count, reqs, sleeps) ==
    LET Body(resp, s1, reqs1) ==
            IF resp.raised
            THEN Result(e, s1, reqs1, sleeps, "HTTPError", NoState)
            ELSE IF resp.status = 204
                 THEN JobReadLoopNoLastWait(
                          e, s1, count + 1, reqs1,
                          IF count + 1 < MaxAttempts THEN sleeps + 1 ELSE sleeps)
                 ELSE Result(e, s1, reqs1, sleeps, "ok", _load_state(resp))
    IN IF count < MaxAttempts
       THEN Body(ServiceGet(s, EndpointUrl(e.path, <<>>)),
                 ServerAfterGet(s),
                 Append(reqs, Req("GET", EndpointUrl(e.path, <<>>), EmptyDict)))
       ELSE Result(e, s, reqs, sleeps, "OperationError", NoState)

JobReadLoop(e, s, count, reqs, sleeps) ==
    LET Body(resp, s1, reqs1) ==
            IF resp.raised
            THEN Result(e, s1, reqs1, sleeps, "HTTPError", NoState)
            ELSE IF resp.status = 204
                 THEN JobReadLoop(e, s1, count + 1, reqs1, sleeps + 1)
                 ELSE Result(e, s1, reqs1, sleeps, "ok", _load_state(resp))
    IN IF count < MaxAttempts
       THEN Body(ServiceGet(s, EndpointUrl(e.path, <<>>)),
                 ServerAfterGet(s),
                 Append(reqs, Req("GET", EndpointUrl(e.path, <<>>), EmptyDict)))
       ELSE Result(e, s, reqs, sleeps, "OperationError", NoState)

\* Job.read with the attempt counter started at 1
JobReadStartsAtOne(e, s) == JobReadLoop(e, s, 1, <<>>, 0)

\* Job.read
JobRead(e, s) == JobReadLoop(e, s, 0, <<>>, 0)

\* a read that stores what it read in the cache
ReadCaching(e, s) ==
    LET Store(r) == IF r.outcome = "ok" THEN [r EXCEPT !.e.state = r.ret] ELSE r
    IN Store(IF e.cls = "Job" THEN JobRead(e, s) ELSE EntityRead(e, s))

\* self.read(), dispatched on the class
Read(e, s) == IF e.cls = "Job" THEN JobRead(e, s) ELSE EntityRead(e, s)

\* a refresh that drops the cached state before it reads
EntityRefreshClearing(e, s, state) ==
    LET Adopt(r) ==
            IF r.outcome = "ok"
            THEN Result([e EXCEPT !.state = r.ret], r.srv, r.reqs, r.sleeps,
                        "ok", Self)
            ELSE Result([e EXCEPT !.state = NoState], r.srv, r.reqs, r.sleeps,
                        r.outcome, None)
    IN IF state # NoState
       THEN Result([e EXCEPT !.state = state], s, <<>>, 0, "ok", Self)
       ELSE Adopt(Read(e, s))

\* Entity.refresh(state)
EntityRefresh(e, s, state) ==
    LET Adopt(r) ==
            IF r.outcome = "ok"
            THEN Result([e EXCEPT !.state = r.ret], r.srv, r.reqs, r.sleeps,
                        "ok", Self)
            ELSE Result(e, r.srv, r.reqs, r.sleeps, r.outcome, None)
    IN IF state # NoState
       THEN Result([e EXCEPT !.state = state], s, <<>>, 0, "ok", Self)
       ELSE Adopt(Read(e, s))

\* a constructor that leaves the state unset when it is given none
EntityInitLazy(cls, s, path, state) ==
    Result([cls |-> cls, alive |-> TRUE, path |-> EndpointPath(path),
            state |-> state], s, <<>>, 0, "ok", Self)

\* Entity.__init__(service, path, state=...): a constructor that raises
\* yields no object
EntityInit(cls, s, path, state) ==
    LET Built(r) ==
            IF r.outcome = "ok"
            THEN r
            ELSE [r EXCEPT !.e = [cls |-> cls, alive |-> FALSE, path |-> <<>>,
                                  state |-> NoState]]
    IN Built(EntityRefresh([cls |-> cls, alive |-> TRUE,
                            path |-> EndpointPath(path), state |-> NoState],
                           s, state))

\* the state property: the cached state, fetched first if there is none
EntityState(e, s) ==
    LET Fetched(r) == IF r.outcome = "ok" THEN [r EXCEPT !.ret = r.e.state]
                      ELSE r
    IN IF e.state = NoState
       THEN Fetched(EntityRefresh(e, s, NoState))
       ELSE Result(e, s, <<>>, 0, "ok", e.state)

\* the properties access, content, fields, links and name (Job.name is the
\* sid of the content)
Accessors == {"access", "content", "fields", "links", "name"}

EntityAccessor(e, s, which) ==
    LET Project(r) ==
            IF r.outcome # "ok" THEN r
            ELSE [r EXCEPT !.ret =
                     CASE which = "access" -> @.access
                       [] which = "content" -> @.content
                       [] which = "fields" -> @.fields
                       [] which = "links" -> @.links
                       [] which = "name" ->
                           IF e.cls = "Job"
                           THEN DictGet(@.content, "sid", None)
                           ELSE @.title]
    IN Project(EntityState(e, s))

-----------------------------------------------------------------------------
(* Entity: field access *)

\* str.split(',') on the content values of the model
Split(str) ==
    CASE str = "" -> [list |-> <<"">>]
      [] str = "a,b" -> [list |-> <<"a", "b">>]

\* what a lookup found and where: src is "member", "content" or "default", or
\* "KeyError" with the key the error message names
Found(src, val) == [src |-> src, val |-> val]

\* the value of a property of a subclass, computed from the content c
PropertyValue(cls, key, c) ==
    CASE key \in {"whitelist", "blacklist"} /\ cls = "DeploymentServerClass" ->
             IF key \in DOMAIN c THEN Split(c[key]) ELSE None
      [] key = "whitelist" /\ cls # "DeploymentServerClass" ->
             DictGet(c, "whitelist.0", None)
      [] key = "check_new" -> DictGet(c, "check-new", "False")
      [] key = "sid" -> DictGet(c, "sid", None)

\* the value of a member the normal attribute lookup finds: a property is
\* evaluated, any other attribute is the attribute itself
MemberValue(e, s, key) ==
    LET Direct(r) == IF r.outcome = "ok"
                     THEN [r EXCEPT !.ret = Found("member", @)] ELSE r
        Computed(r) == IF r.outcome = "ok"
                       THEN [r EXCEPT !.ret =
                                Found("member", PropertyValue(e.cls, key, @))]
                       ELSE r
    IN IF key \in Accessors
       THEN Direct(EntityAccessor(e, s, key))
       ELSE IF key \in {"whitelist", "blacklist", "check_new", "sid"}
            THEN Computed(EntityAccessor(e, s, "content"))
            ELSE Result(e, s, <<>>, 0, "ok", Found("member", "<attribute>"))

\* Endpoint.__getattr__(self, key): neither Endpoint nor object defines
\* __getattr__, so evaluating the reference raises AttributeError
Endpoint__getattr__(e, key) == [raised |-> "AttributeError"]

\* Record.__getitem__: a missing key raises KeyError
RecordGetItem(rec, key) ==
    IF key \in DOMAIN rec
    THEN [raised |-> "", val |-> rec[key]]
    ELSE [raised |-> "KeyError", val |-> None]

\* a lookup that takes the default for an empty content value
_lookupFalsyDefault(e, s, key) ==
    LET Stage3(r) ==
            IF key \in DOMAIN Defaults(e.cls)
            THEN [r EXCEPT !.ret = Found("default", Defaults(e.cls)[key])]
            ELSE [r EXCEPT !.outcome = "KeyError",
                           !.ret = Found("KeyError", key)]
        Stage2(r) ==
            IF r.outcome # "ok" THEN r
            ELSE IF key \in DOMAIN r.ret /\ Truthy(r.ret[key])
                 THEN [r EXCEPT !.ret = Found("content", @[key])]
                 ELSE Stage3(r)
    IN Stage2(EntityAccessor(e, s, "content"))

\* Entity._lookup
_lookup(e, s, key) ==
    LET Stage3(r) ==
            IF key \in DOMAIN Defaults(e.cls)
            THEN [r EXCEPT !.ret = Found("default", Defaults(e.cls)[key])]
            ELSE [r EXCEPT !.outcome = "KeyError",
                           !.ret = Found("KeyError", key)]
        Stage2(r) ==
            IF r.outcome # "ok" THEN r
            ELSE IF RecordGetItem(r.ret, key).raised # "KeyError"
                 THEN [r EXCEPT !.ret = Found("content", @[key])]
                 ELSE Stage3(r)
    IN IF Endpoint__getattr__(e, key).raised # "AttributeError"
       THEN MemberValue(e, s, key)
       ELSE Stage2(EntityAccessor(e, s, "content"))

\* entity.key: Python finds a member by its normal lookup and calls
\* Entity.__getattr__ only when there is none
EntityGetAttr(e, s, key) ==
    IF key \in Members(e.cls) THEN MemberValue(e, s, key)
    ELSE _lookup(e, s, key)

\* entity[key]: Entity.__getitem__
EntityGetItem(e, s, key) == _lookup(e, s, key)

-----------------------------------------------------------------------------
(* Entity: update and the action sub-paths *)

\* kwargs with the key old renamed to new: kwargs[new] = kwargs.pop(old)
Rename(kwargs, old, new) ==
    IF old \in DOMAIN kwargs
    THEN [k \in ((DOMAIN kwargs) \ {old}) \cup {new} |->
             IF k = new THEN kwargs[old] ELSE kwargs[k]]
    ELSE kwargs

\* a POST by an operation that returns self
PostAndReturnSelf(e, s, url, fields) ==
    LET Answered(resp) ==
            Result(e, ServerAfterPost(s, fields),
                   <<Req("POST", url, fields)>>, 0,
                   IF resp.raised THEN "HTTPError" ELSE "ok",
                   IF resp.raised THEN None ELSE Self)
    IN Answered(ServicePost(s, url, fields))

\* an update that reads the entity again after its POST
EntityUpdateRereading(e, s, kwargs) ==
    LET Reread(p, r) ==
            IF p.outcome # "ok" THEN p
            ELSE Result(r.e, r.srv, p.reqs \o r.reqs, 0, r.outcome, r.ret)
        Posted(p) == Reread(p, EntityRefresh(p.e, p.srv, NoState))
    IN IF "name" \in DOMAIN kwargs
       THEN Result(e, s, <<>>, 0, "ValueError", None)
       ELSE Posted(PostAndReturnSelf(e, s, EndpointUrl(e.path, <<>>), kwargs))

\* an update that drops the cached state after its POST
EntityUpdateInvalidating(e, s, kwargs) ==
    LET Dropped(r) == IF r.outcome = "ok" THEN [r EXCEPT !.e.state = NoState] ELSE r
    IN IF "name" \in DOMAIN kwargs
       THEN Result(e, s, <<>>, 0, "ValueError", None)
       ELSE Dropped(PostAndReturnSelf(e, s, EndpointUrl(e.path, <<>>), kwargs))

\* Entity.update
EntityUpdate(e, s, kwargs) ==
    IF "name" \in DOMAIN kwargs
    THEN Result(e, s, <<>>, 0, "ValueError", None)
    ELSE PostAndReturnSelf(e, s, EndpointUrl(e.path, <<>>), kwargs)

\* SavedSearch.update(search=None, **kwargs)
SavedSearchUpdate(e, s, kwargs) ==
    LET WithContent(r) ==
            IF r.outcome # "ok" THEN [r EXCEPT !.ret = None]
            ELSE IF RecordGetItem(r.ret, "search").raised = "KeyError"
            THEN [r EXCEPT !.outcome = "AttributeError", !.ret = None]
            ELSE EntityUpdate(r.e, r.srv,
                              Merge(kwargs, [k \in {"search"} |->
                                                r.ret["search"]]))
    IN IF "search" \in DOMAIN kwargs
       THEN EntityUpdate(e, s, kwargs)
       ELSE WithContent(EntityAccessor(e, s, "content"))

\* Settings.update
SettingsUpdate(e, s, kwargs) ==
    PostAndReturnSelf(e, s, PATH_SETTINGS_UPDATE, kwargs)

\* the POST of an update to base + self.name
PostByName(base, kwargs, r) ==
    IF r.outcome # "ok" THEN [r EXCEPT !.ret = None]
    ELSE PostAndReturnSelf(r.e, r.srv, base \o <<r.ret>>, kwargs)

\* DeploymentTenant.update
DeploymentTenantUpdate(e, s, kwargs) ==
    PostByName(PATH_DEPLOYMENT_TENANTS,
               Rename(kwargs, "check_new", "check-new"),
               EntityAccessor(e, s, "name"))

\* DeploymentServer.update
DeploymentServerUpdate(e, s, kwargs) ==
    PostByName(PATH_DEPLOYMENT_SERVERS,
               Rename(Rename(IF "disabled" \in DOMAIN kwargs
                             THEN [kwargs EXCEPT !["disabled"] =
                                      IF Truthy(@) THEN "1" ELSE "0"]
                             ELSE kwargs,
                             "check_new", "check-new"),
                      "whitelist", "whitelist.0"),
               EntityAccessor(e, s, "name"))

\* entity.update(**kwargs), dispatched on the class
Update(e, s, kwargs) ==
    CASE e.cls = "SavedSearch" -> SavedSearchUpdate(e, s, kwargs)
      [] e.cls = "Settings" -> SettingsUpdate(e, s, kwargs)
      [] e.cls = "DeploymentTenant" -> DeploymentTenantUpdate(e, s, kwargs)
      [] e.cls = "DeploymentServer" -> DeploymentServerUpdate(e, s, kwargs)
      [] OTHER -> EntityUpdate(e, s, kwargs)

\* the classes whose update is Entity.update itself
UsesEntityUpdate(cls) == cls \in {"Entity", "DeploymentServerClass", "Job"}

\* Entity.disable, Entity.enable, Entity.reload: the sub-path each posts to
ActionPaths ==
    [method \in {"disable", "enable", "reload"} |->
        IF method = "reload" THEN "_reload" ELSE method]

\* an action that refreshes the entity after its POST
EntityActionRefreshing(e, s, relpath) ==
    LET Reread(p, r) ==
            IF p.outcome # "ok" THEN p
            ELSE Result(r.e, r.srv, p.reqs \o r.reqs, 0, r.outcome, r.ret)
        Posted(p) == Reread(p, EntityRefresh(p.e, p.srv, NoState))
    IN Posted(PostAndReturnSelf(e, s, EndpointUrl(e.path, <<relpath>>),
                                EmptyDict))

EntityAction(e, s, relpath) ==
    PostAndReturnSelf(e, s, EndpointUrl(e.path, <<relpath>>), EmptyDict)

-----------------------------------------------------------------------------
(* The inputs of the operations *)

\* the largest number of fields of one update
MaxFields == 2

\* the keys update is called with: name, the content keys of the class and
\* the keyword arguments the class's own update treats specially
UpdateKeys(cls) ==
    {"name"} \cup ContentKeys(cls) \cup
    CASE cls = "DeploymentTenant" -> {"check_new"}
      [] cls = "DeploymentServer" -> {"check_new", "disabled", "whitelist"}
      [] OTHER -> {}

Kwargs(cls) ==
    UNION {[ks -> ContentValues] :
              ks \in {S \in SUBSET UpdateKeys(cls) : Cardinality(S) <= MaxFields}}

\* the keys field access is tried with
LookupKeys(cls) ==
    ContentKeys(cls) \cup {"name", "whitelist", "endpoint", "tmpfolder", "nosuch"}

\* the path an object of the class is constructed with: Settings fixes its
\* own, the others are given one, with or without the trailing separator
ConstructPaths(cls) ==
    IF cls = "Settings" THEN {PATH_SETTINGS}
    ELSE {<<"res", Slash, "n">>, <<"res", Slash, "n", Slash>>}

\* the resources a server may hold for a class
Resources(cls) ==
    {[title |-> t, content |-> c, status |-> 200, lag |-> 0] :
        t \in Titles, c \in Contents(cls)}

\* the state records a caller may hand to the constructor or to refresh:
\* what a listing of the resource would have decoded
GivenStates(cls) ==
    {_parse_atom_entry(ServerEntry(r, <<"res", Slash, "n">>)) :
        r \in {x \in Resources(cls) :
                  \A k \in DOMAIN x.content : x.content[k] = "a,b"}}

-----------------------------------------------------------------------------
(* The state machine of one Entity and its server resource *)

NoEntity(cls) == [cls |-> cls, alive |-> FALSE, path |-> <<>>, state |-> NoState]

\* no call is between two of its requests
NoPending == [op |-> "none"]

\* no Collection object
NoCollection == [cls |-> "none", path |-> <<>>, item |-> "none"]

Init ==
    /\ ent \in {NoEntity(cls) : cls \in Classes}
    /\ srv \in Resources(ent.cls)
    /\ coll = NoCollection
    /\ store = <<>>
    /\ pending = NoPending
    /\ call = [op |-> "init"]

\* the step of an operation: the objects after it and the record of the call
Apply(op, args, r) ==
    /\ ent' = r.e
    /\ srv' = r.srv
    /\ call' = [op |-> op, args |-> args, reqs |-> r.reqs, sleeps |-> r.sleeps,
                outcome |-> r.outcome, ret |-> r.ret]
    /\ UNCHANGED <<coll, store, pending>>

\* cls(service, path) and cls(service, path, state=state)
Construct ==
    /\ ~ent.alive
    /\ \E path \in ConstructPaths(ent.cls) :
       \E state \in {NoState} \cup GivenStates(ent.cls) :
          Apply("construct", [path |-> path, state |-> state],
                EntityInit(ent.cls, srv, path, state))

\* entity.read()
DoRead ==
    /\ ent.alive
    /\ Apply("read", EmptyDict, Read(ent, srv))

\* entity.refresh() and entity.refresh(state)
DoRefresh ==
    /\ ent.alive
    /\ \E state \in {NoState} \cup GivenStates(ent.cls) :
          Apply("refresh", [state |-> state], EntityRefresh(ent, srv, state))

\* entity.name, entity.access, entity.fields, entity.links, entity.content
DoAccessor ==
    /\ ent.alive
    /\ \E which \in Accessors :
          Apply("accessor", [which |-> which], EntityAccessor(ent, srv, which))

\* entity.key
DoGetAttr ==
    /\ ent.alive
    /\ \E key \in LookupKeys(ent.cls) :
          Apply("getattr", [key |-> key], EntityGetAttr(ent, srv, key))

\* entity[key]
DoGetItem ==
    /\ ent.alive
    /\ \E key \in LookupKeys(ent.cls) :
          Apply("getitem", [key |-> key], EntityGetItem(ent, srv, key))

\* entity.update(**kwargs)
DoUpdate ==
    /\ ent.alive
    /\ \E kwargs \in Kwargs(ent.cls) :
          Apply("update", [kwargs |-> kwargs], Update(ent, srv, kwargs))

\* entity.disable(), entity.enable(), entity.reload()
DoAction ==
    /\ ent.alive
    /\ \E method \in DOMAIN ActionPaths :
          Apply("action", [method |-> method],
                EntityAction(ent, srv, ActionPaths[method]))

\* another client changes the resource on the server
ServerChange ==
    /\ \E r \in Resources(ent.cls) :
          /\ r # [srv EXCEPT !.status = 200, !.lag = 0]
          /\ srv' = [srv EXCEPT !.title = r.title, !.content = r.content]
    /\ call' = [op |-> "env"]
    /\ UNCHANGED <<ent, coll, store, pending>>

\* the server starts or stops failing requests
ServerStatus ==
    /\ srv' = [srv EXCEPT !.status = IF @ = 200 THEN 500 ELSE 200]
    /\ call' = [op |-> "env"]
    /\ UNCHANGED <<ent, coll, store, pending>>

\* a job resource is not materialized yet: its next k GETs answer 204
JobNotReady ==
    /\ ent.cls = "Job"
    /\ \E k \in 0..MaxLag :
          /\ k # srv.lag
          /\ srv' = [srv EXCEPT !.lag = k]
    /\ call' = [op |-> "env"]
    /\ UNCHANGED <<ent, coll, store, pending>>

Next ==
    \/ Construct
    \/ DoRead
    \/ DoRefresh
    \/ DoAccessor
    \/ DoGetAttr
    \/ DoGetItem
    \/ DoUpdate
    \/ DoAction
    \/ ServerChange
    \/ ServerStatus
    \/ JobNotReady

Spec == Init /\ [][Next]_vars

-----------------------------------------------------------------------------
(* Collection *)

PATH_ROLES == <<"authentication", Slash, "roles", Slash>>
PATH_JOBS == <<"search", Slash, "jobs", Slash>>
PATH_USERS == <<"authentication", Slash, "users", Slash>>

\* the largest number of resources of the collection on the server
MaxEntries == 2

\* the Collection classes of the model
CollectionClasses == {"Collection", "Jobs", "Users"}

\* Collection.__init__(service, path, item): service.roles is
\* Collection(self, PATH_ROLES), service.jobs is Jobs(self), which is
\* Collection.__init__(self, service, PATH_JOBS, item=Job), service.users is
\* Users(self), which is Collection.__init__(self, service, PATH_USERS)
CollectionInit(cls) ==
    [cls |-> cls,
     path |-> EndpointPath(CASE cls = "Jobs" -> PATH_JOBS
                             [] cls = "Users" -> PATH_USERS
                             [] OTHER -> PATH_ROLES),
     item |-> IF cls = "Jobs" THEN "Job" ELSE "Entity"]

\* the names and the namespaces (apps) of the resources a server may hold
Names == {"a", "b"}
Apps == {"search", "system"}
ServerResources == [name : Names, app : Apps]

\* the sequences of distinct resources of at most n elements
Stores(n) ==
    {st \in UNION {[1..k -> ServerResources] : k \in 0..n} :
        \A i, j \in DOMAIN st : st[i] = st[j] => i = j}

\* the path of a resource of the collection at path, its alternate link
AlternatePath(path, r) == <<"servicesNS", Slash, r.app, Slash>> \o path \o <<r.name>>

\* the Atom entry of a resource in a listing: its link element is one link or
\* several, its content carries the sid of a job
FeedEntry(c, r) ==
    [title |-> r.name,
     link |-> IF r.app = "search"
              THEN [rel |-> "alternate", href |-> AlternatePath(c.path, r)]
              ELSE [list |-> <<[rel |-> "alternate",
                               href |-> AlternatePath(c.path, r)],
                              [rel |-> "list", href |-> c.path]>>],
     content |-> IF c.cls = "Jobs"
                 THEN Merge([k \in {"sid"} |-> r.name], ServerMeta)
                 ELSE ServerMeta]

\* the resources the server lists for the query args: the first count of
\* them for a positive count, else all of them
Listed(st, args) ==
    IF args.count > 0 /\ args.count < Len(st)
    THEN SubSeq(st, 1, args.count) ELSE st

\* the decoded body of a listing: a feed whose entry is absent for no
\* resource, one record for one resource, and a list for several
FeedBody(c, listed) ==
    IF Len(listed) = 0 THEN [feed |-> [title |-> "feed"]]
    ELSE IF Len(listed) = 1
         THEN [feed |-> [title |-> "feed", entry |-> FeedEntry(c, listed[1])]]
         ELSE [feed |-> [title |-> "feed",
                         entry |-> [list |-> [i \in DOMAIN listed |->
                                                 FeedEntry(c, listed[i])]]]]

\* GET of the collection path
ServiceGetFeed(s, st, c, args) ==
    IF s.status # 200
    THEN [raised |-> TRUE, status |-> s.status, body |-> EmptyDict]
    ELSE [raised |-> FALSE, status |-> 200,
          body |-> FeedBody(c, Listed(st, args))]

\* _load_atom_entries: None, or the entries as a list
_load_atom_entries(response) ==
    LET Normalize(entries) ==
            IF entries = NoneObject THEN NoneObject
            ELSE IF IsList(entries) THEN entries ELSE [list |-> <<entries>>]
    IN Normalize(DictGet(response.body.feed, "entry", NoneObject))

\* self.item(self.service, state.links.alternate, state=state)
Item(c, s, state) == EntityInit(c.item, s, state.links.alternate, state).e

\* a _load_list that returns None for a feed without entries
_load_listNone(c, s, response) ==
    LET Build(entries) ==
            IF entries = NoneObject THEN NoneObject
            ELSE [list |-> [i \in DOMAIN entries.list |->
                               Item(c, s, _parse_atom_entry(entries.list[i]))]]
    IN Build(_load_atom_entries(response))

\* a _load_list that builds every item on the path of the collection
_load_listOwnPath(c, s, response) ==
    LET Build(entries) ==
            IF entries = NoneObject THEN [list |-> <<>>]
            ELSE [list |-> [i \in DOMAIN entries.list |->
                               EntityInit(c.item, s, c.path,
                                          _parse_atom_entry(entries.list[i])).e]]
    IN Build(_load_atom_entries(response))

\* Collection._load_list
_load_list(c, s, response) ==
    LET Build(entries) ==
            IF entries = NoneObject THEN [list |-> <<>>]
            ELSE [list |-> [i \in DOMAIN entries.list |->
                               Item(c, s, _parse_atom_entry(entries.list[i]))]]
    IN Build(_load_atom_entries(response))

\* what a Collection operation did
CResult(reqs, outcome, ret) ==
    [reqs |-> reqs, sleeps |-> 0, outcome |-> outcome, ret |-> ret]

\* the count list() asks for when it is given none: Collection.list has
\* count=-1, Jobs.list and the list of the deployment collections have
\* count=0
DefaultCount(cls) ==
    IF cls \in {"Jobs", "DeploymentCollection", "DeploymentServers",
               "DeploymentServerClasses"}
    THEN 0 ELSE 0 - 1

\* a list that serves the listing of the call before it when that call was
\* the same list
CollectionListMemo(c, s, st, count, kwargs) ==
    LET args == Merge(kwargs, [k \in {"count"} |-> count])
        Loaded(resp) ==
            CResult(<<Req("GET", EndpointUrl(c.path, <<>>), args)>>,
                    IF resp.raised THEN "HTTPError" ELSE "ok",
                    IF resp.raised THEN NoneObject ELSE _load_list(c, s, resp))
    IN IF call.op = "list" /\ call.outcome = "ok"
          /\ call.args = [count |-> count, kwargs |-> kwargs]
       THEN CResult(<<>>, "ok", call.ret)
       ELSE Loaded(ServiceGetFeed(s, st, c, args))

\* Collection.list(count, **kwargs)
CollectionList(c, s, st, count, kwargs) ==
    LET args == Merge(kwargs, [k \in {"count"} |-> count])
        Loaded(resp) ==
            CResult(<<Req("GET", EndpointUrl(c.path, <<>>), args)>>,
                    IF resp.raised THEN "HTTPError" ELSE "ok",
                    IF resp.raised THEN NoneObject ELSE _load_list(c, s, resp))
    IN Loaded(ServiceGetFeed(s, st, c, args))

\* item.name of the items of a list
ItemNames(s, items) ==
    [i \in DOMAIN items |-> EntityAccessor(items[i], s, "name").ret]

\* Collection.contains(name): iterating None raises TypeError
CollectionContains(c, s, st, name) ==
    LET Scan(r) ==
            IF r.outcome # "ok" THEN [r EXCEPT !.ret = FALSE]
            ELSE IF r.ret = NoneObject
                 THEN [r EXCEPT !.outcome = "TypeError", !.ret = FALSE]
                 ELSE [r EXCEPT !.ret =
                          \E i \in DOMAIN @.list : ItemNames(s, @.list)[i] = name]
    IN Scan(CollectionList(c, s, st, DefaultCount(c.cls), EmptyDict))

\* str.lower() of the names of the model
Lower(name) == IF name = "A" THEN "a" ELSE name

\* the index of the last, not the first, match
FirstTakingLast(names, key) ==
    CHOOSE i \in DOMAIN names :
        names[i] = key /\ \A j \in DOMAIN names : names[j] = key => j <= i

\* for item in self.list(): if item.name == key: return item -- the index of
\* the first match
First(names, key) ==
    CHOOSE i \in DOMAIN names :
        names[i] = key /\ \A j \in DOMAIN names : names[j] = key => i <= j

\* the KeyError raised for a key
KeyError(key) == [raised |-> "KeyError", key |-> key]

\* Collection.__getitem__(key): the first listed item of that name
CollectionGetItem(c, s, st, key) ==
    LET Pick(r, names) ==
            IF \E i \in DOMAIN names : names[i] = key
            THEN [r EXCEPT !.ret = @.list[First(names, key)]]
            ELSE [r EXCEPT !.outcome = "KeyError", !.ret = KeyError(key)]
        Scan(r) ==
            IF r.outcome # "ok" THEN r ELSE Pick(r, ItemNames(s, r.ret.list))
    IN Scan(CollectionList(c, s, st, DefaultCount(c.cls), EmptyDict))

\* collection[key], by class: Users looks up key.lower()
GetItem(c, s, st, key) ==
    IF c.cls = "Users" THEN CollectionGetItem(c, s, st, Lower(key))
    ELSE CollectionGetItem(c, s, st, key)

\* collection.contains(name), by class: Users looks up name.lower()
Contains(c, s, st, name) ==
    IF c.cls = "Users" THEN CollectionContains(c, s, st, Lower(name))
    ELSE CollectionContains(c, s, st, name)

\* Collection.__iter__, consumed: the names of the items of a listing
CollectionIter(c, s, st) ==
    LET NamesOf(r) ==
            IF r.outcome # "ok" THEN r
            ELSE [r EXCEPT !.ret = [list |-> ItemNames(s, @.list)]]
    IN NamesOf(CollectionList(c, s, st, DefaultCount(c.cls), EmptyDict))

\* Collection.iterkeys: iter(self)
CollectionIterKeys(c, s, st) == CollectionIter(c, s, st)

\* Collection.keys: list(self.iterkeys())
CollectionKeys(c, s, st) == CollectionIterKeys(c, s, st)

\* Collection.__len__: len(self.list())
CollectionLen(c, s, st) ==
    LET Count(r) == IF r.outcome # "ok" THEN r ELSE [r EXCEPT !.ret = Len(@.list)]
    IN Count(CollectionList(c, s, st, DefaultCount(c.cls), EmptyDict))

\* Collection.iteritems, consumed: the pairs (item.name, item)
CollectionIterItems(c, s, st) ==
    LET Pairs(r) ==
            IF r.outcome # "ok" THEN r
            ELSE [r EXCEPT !.ret =
                     [list |-> [i \in DOMAIN @.list |->
                                   <<ItemNames(s, @.list)[i], @.list[i]>>]]]
    IN Pairs(CollectionList(c, s, st, DefaultCount(c.cls), EmptyDict))

\* Collection.itervalues, consumed: the items
CollectionIterValues(c, s, st) ==
    CollectionList(c, s, st, DefaultCount(c.cls), EmptyDict)

\* _path(base, name): base + '/' + name, without doubling the separator
_path(base, name) ==
    IF EndsWithSlash(base) THEN base \o <<name>> ELSE base \o <<Slash, name>>

\* the HTTPError the transport raises for a status that is no success
HTTPError(status) == [raised |-> "HTTPError", status |-> status]

\* DELETE of the resource of a name: 404 when the server has none of that
\* name
ServiceDelete(s, st, name) ==
    IF s.status # 200 THEN [raised |-> TRUE, status |-> s.status]
    ELSE IF \A i \in DOMAIN st : st[i].name # name
         THEN [raised |-> TRUE, status |-> 404]
         ELSE [raised |-> FALSE, status |-> 200]

\* the resources of the server after a DELETE of a name that succeeded
RECURSIVE Without(_, _)
Without(st, name) ==
    IF st = <<>> THEN <<>>
    ELSE IF Head(st).name = name THEN Without(Tail(st), name)
         ELSE <<Head(st)>> \o Without(Tail(st), name)

StoreAfterDelete(s, st, name) ==
    IF ServiceDelete(s, st, name).raised THEN st ELSE Without(st, name)

\* what a Collection operation that may change the server did
SResult(reqs, outcome, ret, st) ==
    [reqs |-> reqs, sleeps |-> 0, outcome |-> outcome, ret |-> ret, store |-> st]

\* a delete that reports every failure of the DELETE as a missing key
CollectionDeleteAnyError(c, s, st, name) ==
    LET Answered(resp) ==
            SResult(<<Req("DELETE", _path(c.path, name), EmptyDict)>>,
                    IF resp.raised THEN "KeyError" ELSE "ok",
                    IF resp.raised THEN KeyError(<<"No such entity", name>>)
                    ELSE Self,
                    StoreAfterDelete(s, st, name))
    IN Answered(ServiceDelete(s, st, name))

\* a delete that takes a 404 for a success
CollectionDeleteIgnoring404(c, s, st, name) ==
    LET Answered(resp) ==
            SResult(<<Req("DELETE", _path(c.path, name), EmptyDict)>>,
                    IF resp.raised /\ resp.status # 404 THEN "HTTPError" ELSE "ok",
                    IF resp.raised /\ resp.status # 404
                    THEN HTTPError(resp.status) ELSE Self,
                    StoreAfterDelete(s, st, name))
    IN Answered(ServiceDelete(s, st, name))

\* Collection.delete(name)
CollectionDelete(c, s, st, name) ==
    LET Answered(resp) ==
            SResult(<<Req("DELETE", _path(c.path, name), EmptyDict)>>,
                    IF resp.raised
                    THEN IF resp.status = 404 THEN "KeyError" ELSE "HTTPError"
                    ELSE "ok",
                    IF resp.raised
                    THEN IF resp.status = 404
                         THEN KeyError(<<"No such entity", name>>)
                         ELSE HTTPError(resp.status)
                    ELSE Self,
                    StoreAfterDelete(s, st, name))
    IN Answered(ServiceDelete(s, st, name))

\* collection.delete(name), by class: Users deletes name.lower()
Delete(c, s, st, name) ==
    IF c.cls = "Users" THEN CollectionDelete(c, s, st, Lower(name))
    ELSE CollectionDelete(c, s, st, name)

\* a name argument as a Python value: a string, or a value that is none
PyStr(x) == [str |-> x]
PyInt(n) == [int |-> n]

\* isinstance(name, basestring)
IsString(v) == "str" \in DOMAIN v

\* the namespace of the service: the one new resources are created in
ServiceApp == "search"

\* POST of the fields of a new resource to the collection path: 400 without a
\* name, 409 when the namespace has a resource of that name
ServicePostCreate(s, st, fields) ==
    IF s.status # 200 THEN [raised |-> TRUE, status |-> s.status]
    ELSE IF "name" \notin DOMAIN fields THEN [raised |-> TRUE, status |-> 400]
    ELSE IF \E i \in DOMAIN st :
                st[i] = [name |-> fields.name, app |-> ServiceApp]
         THEN [raised |-> TRUE, status |-> 409]
         ELSE [raised |-> FALSE, status |-> 200]

\* the resources of the server after that POST
StoreAfterCreate(s, st, fields) ==
    IF ServicePostCreate(s, st, fields).raised THEN st
    ELSE Append(st, [name |-> fields.name, app |-> ServiceApp])

\* a create that posts the fields without the name
CollectionCreateWithoutName(c, s, st, name, kwargs) ==
    LET Looked(post, r, st1) ==
            SResult(<<post>> \o r.reqs, r.outcome, r.ret, st1)
        Posted(post, resp, st1) ==
            IF resp.raised
            THEN SResult(<<post>>, "HTTPError", HTTPError(resp.status), st1)
            ELSE Looked(post, GetItem(c, s, st1, name.str), st1)
    IN IF ~IsString(name)
       THEN SResult(<<>>, "ValueError",
                    [raised |-> "ValueError", key |-> "Invalid argument: 'name'"],
                    st)
       ELSE Posted(Req("POST", EndpointUrl(c.path, <<>>), kwargs),
                   ServicePostCreate(s, st, kwargs),
                   StoreAfterCreate(s, st, kwargs))

\* Collection.create(name, **kwargs): the POST, then self[name]
CollectionCreate(c, s, st, name, kwargs) ==
    LET Looked(post, r, st1) ==
            SResult(<<post>> \o r.reqs, r.outcome, r.ret, st1)
        Posted(post, resp, st1) ==
            IF resp.raised
            THEN SResult(<<post>>, "HTTPError", HTTPError(resp.status), st1)
            ELSE Looked(post, GetItem(c, s, st1, name.str), st1)
    IN IF ~IsString(name)
       THEN SResult(<<>>, "ValueError",
                    [raised |-> "ValueError", key |-> "Invalid argument: 'name'"],
                    st)
       ELSE Posted(Req("POST", EndpointUrl(c.path, <<>>),
                       Merge(kwargs, [k \in {"name"} |-> name.str])),
                   ServicePostCreate(s, st, Merge(kwargs, [k \in {"name"} |-> name.str])),
                   StoreAfterCreate(s, st, Merge(kwargs, [k \in {"name"} |-> name.str])))

\* Users.create(name, **kwargs): Collection.create(self, name.lower(), ...);
\* a value that is no string has no method lower
UsersCreate(c, s, st, name, kwargs) ==
    IF ~IsString(name)
    THEN SResult(<<>>, "AttributeError",
                 [raised |-> "AttributeError", key |-> "lower"], st)
    ELSE CollectionCreate(c, s, st, PyStr(Lower(name.str)), kwargs)

\* Collection.create up to its POST: the server stores the new resource under
\* the name stored, the given name or the name as the server normalizes it
CollectionCreatePost(c, s, st, name, kwargs, stored) ==
    LET Posted(post, resp, st1) ==
            IF resp.raised
            THEN SResult(<<post>>, "HTTPError", HTTPError(resp.status), st1)
            ELSE SResult(<<post>>, "ok", NoneObject, st1)
    IN IF ~IsString(name)
       THEN SResult(<<>>, "ValueError",
                    [raised |-> "ValueError", key |-> "Invalid argument: 'name'"],
                    st)
       ELSE Posted(Req("POST", EndpointUrl(c.path, <<>>),
                       Merge(kwargs, [k \in {"name"} |-> name.str])),
                   ServicePostCreate(s, st, [k \in {"name"} |-> stored]),
                   StoreAfterCreate(s, st, [k \in {"name"} |-> stored]))

\* a create that deletes the resource again when its lookup failed
CollectionCreateLookupCompensating(c, s, st, p) ==
    LET Looked(r) ==
            IF r.outcome = "ok" THEN SResult(p.reqs \o r.reqs, r.outcome, r.ret, st)
            ELSE SResult(p.reqs \o r.reqs
                             \o <<Req("DELETE", _path(c.path, p.stored), EmptyDict)>>,
                         r.outcome, r.ret, Without(st, p.stored))
    IN Looked(GetItem(c, s, st, p.name))

\* Collection.create after its POST: return self[name]
CollectionCreateLookup(c, s, st, p) ==
    LET Looked(r) == SResult(p.reqs \o r.reqs, r.outcome, r.ret, st)
    IN Looked(GetItem(c, s, st, p.name))

\* collection.create(name, **kwargs), by class
Create(c, s, st, name, kwargs) ==
    IF c.cls = "Users" THEN UsersCreate(c, s, st, name, kwargs)
    ELSE CollectionCreate(c, s, st, name, kwargs)

\* _load_sid: the sid of the decoded response
_load_sid(response) == response.body.response.sid

\* POST of a search to search/jobs: the server creates the job and answers
\* its sid
ServicePostJob(s, job) ==
    IF s.status # 200
    THEN [raised |-> TRUE, status |-> s.status, body |-> EmptyDict]
    ELSE [raised |-> FALSE, status |-> 201,
          body |-> [response |-> [sid |-> job.name]]]

\* the resource of a job the server created: it answers its first lag GETs
\* with 204
JobResource(s, job) ==
    [title |-> job.name, content |-> [k \in {"sid"} |-> job.name],
     status |-> s.status, lag |-> job.lag]

\* what Jobs.create did, from the POST and the construction of the Job
JobsCreated(post, st1, r) ==
    [reqs |-> <<post>> \o r.reqs, sleeps |-> r.sleeps, outcome |-> r.outcome,
     ret |-> IF r.outcome = "ok" THEN r.e ELSE NoneObject, store |-> st1]

\* a Jobs.create that builds the Job on the path of the collection
JobsCreateOnCollectionPath(c, s, st, query, kwargs, job) ==
    LET Posted(post, resp) ==
            IF resp.raised
            THEN SResult(<<post>>, "HTTPError", HTTPError(resp.status), st)
            ELSE JobsCreated(post,
                             Append(st, [name |-> job.name, app |-> ServiceApp]),
                             EntityInit("Job", JobResource(s, job), PATH_JOBS,
                                        NoState))
    IN IF DictGet(kwargs, "exec_mode", None) = "oneshot"
       THEN SResult(<<>>, "TypeError",
                    [raised |-> "TypeError", key |-> "exec_mode"], st)
       ELSE Posted(Req("POST", EndpointUrl(c.path, <<>>),
                       Merge(kwargs, [k \in {"search"} |-> query])),
                   ServicePostJob(s, job))

\* a Jobs.create that deletes the job when its Job could not be built
JobsCreateRollingBack(c, s, st, query, kwargs, job) ==
    LET Undone(post, r) ==
            IF r.outcome = "ok" THEN r
            ELSE [r EXCEPT !.reqs = Append(@, Req("DELETE",
                                                  PATH_JOBS \o <<job.name>>,
                                                  EmptyDict)),
                           !.store = st]
        Posted(post, resp) ==
            IF resp.raised
            THEN SResult(<<post>>, "HTTPError", HTTPError(resp.status), st)
            ELSE Undone(post,
                        JobsCreated(post,
                             Append(st, [name |-> job.name, app |-> ServiceApp]),
                             EntityInit("Job", JobResource(s, job),
                                        PATH_JOBS \o <<_load_sid(resp)>>,
                                        NoState)))
    IN IF DictGet(kwargs, "exec_mode", None) = "oneshot"
       THEN SResult(<<>>, "TypeError",
                    [raised |-> "TypeError", key |-> "exec_mode"], st)
       ELSE Posted(Req("POST", EndpointUrl(c.path, <<>>),
                       Merge(kwargs, [k \in {"search"} |-> query])),
                   ServicePostJob(s, job))

\* Jobs.create(query, **kwargs); job is the job the server creates for the
\* POST
JobsCreate(c, s, st, query, kwargs, job) ==
    LET Posted(post, resp) ==
            IF resp.raised
            THEN SResult(<<post>>, "HTTPError", HTTPError(resp.status), st)
            ELSE JobsCreated(post,
                             Append(st, [name |-> job.name, app |-> ServiceApp]),
                             EntityInit("Job", JobResource(s, job),
                                        PATH_JOBS \o <<_load_sid(resp)>>,
                                        NoState))
    IN IF DictGet(kwargs, "exec_mode", None) = "oneshot"
       THEN SResult(<<>>, "TypeError",
                    [raised |-> "TypeError", key |-> "exec_mode"], st)
       ELSE Posted(Req("POST", EndpointUrl(c.path, <<>>),
                       Merge(kwargs, [k \in {"search"} |-> query])),
                   ServicePostJob(s, job))

\* POST of a oneshot search: the server runs the search and answers its
\* results; it keeps no job
ServicePostOneshot(s, fields) ==
    IF s.status # 200
    THEN [raised |-> TRUE, status |-> s.status, body |-> EmptyDict]
    ELSE [raised |-> FALSE, status |-> 200,
          body |-> [results |-> <<fields.search>>]]

\* a oneshot that posts whatever exec_mode it is given
JobsOneshotUnguarded(c, s, st, query, kwargs) ==
    LET Answered(post, resp) ==
            IF resp.raised
            THEN SResult(<<post>>, "HTTPError", HTTPError(resp.status), st)
            ELSE SResult(<<post>>, "ok", resp.body, st)
        Post(fields) ==
            Answered(Req("POST", EndpointUrl(c.path, <<>>), fields),
                     ServicePostOneshot(s, fields))
    IN Post(Merge([k \in {"search", "exec_mode", "output_mode"} |->
                      CASE k = "search" -> query
                        [] k = "exec_mode" -> "oneshot"
                        [] k = "output_mode" -> "json"],
                  kwargs))

\* Jobs.oneshot(query, **kwargs): json.loads of the body of the response
JobsOneshot(c, s, st, query, kwargs) ==
    LET Answered(post, resp) ==
            IF resp.raised
            THEN SResult(<<post>>, "HTTPError", HTTPError(resp.status), st)
            ELSE SResult(<<post>>, "ok", resp.body, st)
        Post(fields) ==
            Answered(Req("POST", EndpointUrl(c.path, <<>>), fields),
                     ServicePostOneshot(s, fields))
    IN IF "exec_mode" \in DOMAIN kwargs
       THEN SResult(<<>>, "TypeError",
                    [raised |-> "TypeError", key |-> "exec_mode"], st)
       ELSE Post(Merge(kwargs,
                       [k \in {"search", "exec_mode", "output_mode"} |->
                           CASE k = "search" -> query
                             [] k = "exec_mode" -> "oneshot"
                             [] k = "output_mode" -> "json"]))

\* the views of a Collection that enumerate it
Views == {"iter", "keys", "len", "iteritems", "itervalues"}

CollectionView(c, s, st, which) ==
    CASE which = "iter" -> CollectionIter(c, s, st)
      [] which = "keys" -> CollectionKeys(c, s, st)
      [] which = "len" -> CollectionLen(c, s, st)
      [] which = "iteritems" -> CollectionIterItems(c, s, st)
      [] which = "itervalues" -> CollectionIterValues(c, s, st)

-----------------------------------------------------------------------------
(* The state machine of one Collection and the server's resources *)

\* the query arguments list is called with
Counts(cls) == {DefaultCount(cls), 1}
Filters == {EmptyDict, [search |-> "q"]}

\* the names containment is asked for
AskedNames == Names \cup {"c", "A"}

\* the server resource of an entity no operation of this machine reads
IdleServer == [title |-> "t1", content |-> EmptyDict, status |-> 200, lag |-> 0]

InitColl ==
    /\ ent = NoEntity("Entity")
    /\ srv = IdleServer
    /\ coll \in {CollectionInit(cls) : cls \in CollectionClasses}
    /\ store \in Stores(MaxEntries)
    /\ pending = NoPending
    /\ call = [op |-> "init"]

\* the step of a Collection operation that changes nothing on the server
ApplyColl(op, args, r) ==
    /\ call' = [op |-> op, args |-> args, reqs |-> r.reqs, sleeps |-> r.sleeps,
                outcome |-> r.outcome, ret |-> r.ret]
    /\ UNCHANGED <<ent, srv, coll, store, pending>>

\* collection.list(count=..., **filters)
DoList ==
    \E count \in Counts(coll.cls) : \E kwargs \in Filters :
        ApplyColl("list", [count |-> count, kwargs |-> kwargs],
                  CollectionList(coll, srv, store, count, kwargs))

\* collection.contains(name), name in collection
DoContains ==
    \E name \in AskedNames :
        ApplyColl("contains", [name |-> name],
                  Contains(coll, srv, store, name))

\* collection[key]
DoItem ==
    \E key \in AskedNames :
        ApplyColl("item", [key |-> key], GetItem(coll, srv, store, key))

\* for name in collection, collection.keys(), len(collection),
\* collection.iteritems(), collection.itervalues()
DoView ==
    \E which \in Views :
        ApplyColl("view", [which |-> which],
                  CollectionView(coll, srv, store, which))

\* the step of a Collection operation that may change the server
ApplyStore(op, args, r) ==
    /\ call' = [op |-> op, args |-> args, reqs |-> r.reqs, sleeps |-> r.sleeps,
                outcome |-> r.outcome, ret |-> r.ret]
    /\ store' = r.store
    /\ UNCHANGED <<ent, srv, coll, pending>>

\* collection.delete(name), del collection[name]
DoDelete ==
    \E name \in AskedNames :
        ApplyStore("delete", [name |-> name], Delete(coll, srv, store, name))

\* the name arguments and the fields create is called with
CreateNames == {PyStr(n) : n \in Names \cup {"A"}} \cup {PyInt(5)}
CreateFields == {EmptyDict, [x |-> "1"]}

\* collection.create(name, **kwargs)
DoCreate ==
    /\ coll.cls \in {"Collection", "Users"}
    /\ Len(store) < MaxEntries
    /\ \E name \in CreateNames : \E kwargs \in CreateFields :
          ApplyStore("create", [name |-> name, kwargs |-> kwargs],
                     Create(coll, srv, store, name, kwargs))

\* the sids a server may give a new job, and the arguments of Jobs.create
Sids == {"12345", "a"}
Queries == {"search *"}
JobArgs == {EmptyDict, [exec_mode |-> "oneshot"], [exec_mode |-> "normal"]}

\* jobs.create(query, **kwargs): the server picks the sid, and the job is
\* materialized after some number of GETs
DoCreateJob ==
    /\ coll.cls = "Jobs"
    /\ Len(store) < MaxEntries
    /\ \E query \in Queries : \E kwargs \in JobArgs :
       \E sid \in Sids : \E lag \in 0..MaxLag :
          /\ \A i \in DOMAIN store : store[i].name # sid
          /\ ApplyStore("create_job",
                        [query |-> query, kwargs |-> kwargs, lag |-> lag],
                        JobsCreate(coll, srv, store, query, kwargs,
                                   [name |-> sid, lag |-> lag]))

\* jobs.oneshot(query, **kwargs)
DoOneshot ==
    /\ coll.cls = "Jobs"
    /\ \E query \in Queries : \E kwargs \in JobArgs \cup {[earliest_time |-> "-1h"]} :
          ApplyStore("oneshot", [query |-> query, kwargs |-> kwargs],
                     JobsOneshot(coll, srv, store, query, kwargs))

\* another client creates a resource
StoreAdd ==
    /\ Len(store) < MaxEntries
    /\ \E r \in ServerResources :
          /\ \A i \in DOMAIN store : store[i] # r
          /\ store' = Append(store, r)
    /\ call' = [op |-> "env"]
    /\ UNCHANGED <<ent, srv, coll, pending>>

\* another client deletes a resource
StoreRemove ==
    /\ \E i \in DOMAIN store :
          store' = SubSeq(store, 1, i - 1) \o SubSeq(store, i + 1, Len(store))
    /\ call' = [op |-> "env"]
    /\ UNCHANGED <<ent, srv, coll, pending>>

NextColl ==
    \/ DoList
    \/ DoContains
    \/ DoItem
    \/ DoView
    \/ DoDelete
    \/ DoCreate
    \/ DoCreateJob
    \/ DoOneshot
    \/ StoreAdd
    \/ StoreRemove
    \/ ServerStatus

SpecColl == InitColl /\ [][NextColl]_vars

-----------------------------------------------------------------------------
(* Inputs: the kinded collection *)

PATH_INPUTS == <<"data", Slash, "inputs", Slash>>

\* the directory of input kinds: kind -> path relative to data/inputs
INPUT_KINDMAP ==
    [k \in {"ad", "monitor", "registry", "script", "tcp", "splunktcp", "udp",
            "win-event-log-collections", "win-perfmon", "win-wmi-collections"} |->
        CASE k = "tcp" -> <<"tcp", Slash, "raw">>
          [] k = "splunktcp" -> <<"tcp", Slash, "cooked">>
          [] OTHER -> <<k>>]

\* self._kindmap.keys(): the kinds in the order of the dict, which is one
\* fixed order the source does not determine
KindOrder ==
    <<"ad", "monitor", "registry", "script", "tcp", "splunktcp", "udp",
      "win-event-log-collections", "win-perfmon", "win-wmi-collections">>
Reverse(seq) == [i \in DOMAIN seq |-> seq[Len(seq) + 1 - i]]
KindOrders == {KindOrder, Reverse(KindOrder)}

\* Inputs.__init__(service): Collection.__init__(self, service, PATH_INPUTS),
\* self._kindmap = INPUT_KINDMAP
InputsInit(order) ==
    [cls |-> "Inputs", path |-> EndpointPath(PATH_INPUTS), item |-> "Entity",
     kindmap |-> INPUT_KINDMAP, kinds |-> order]

\* Inputs.kindpath(kind): self.path + self._kindmap[kind]
kindpath(c, kind) == c.path \o c.kindmap[kind]

\* Input.__init__(service, path, kind, **kwargs): an Entity with a kind
Input(s, path, kind, state) ==
    LET Tagged(r) ==
            [r EXCEPT !.e = [cls |-> @.cls, alive |-> @.alive, path |-> @.path,
                             state |-> @.state, kind |-> kind]]
    IN Tagged(EntityInit("Input", s, path, state))

\* the inputs a server may hold: a name under a kind
InputKinds == {"tcp", "udp"}
InputResources == [name : Names, kind : InputKinds]
InputStores(n) ==
    {st \in UNION {[1..k -> InputResources] : k \in 0..n} :
        \A i, j \in DOMAIN st : st[i] = st[j] => i = j}

\* the kinds a server may have no endpoint for (404), and the kinds whose
\* endpoint may be failing (503)
AbsentKinds == {"ad"}
FailingKinds == {"udp"}

\* the alternate link of an input, and its entry in the feed of its kind
InputAlternate(c, r) ==
    <<"servicesNS", Slash, "nobody", Slash, "search", Slash>>
        \o kindpath(c, r.kind) \o <<Slash, r.name>>

InputEntry(c, r) ==
    [title |-> r.name,
     link |-> [list |-> <<[rel |-> "alternate", href |-> InputAlternate(c, r)],
                         [rel |-> "list", href |-> InputAlternate(c, r)]>>],
     content |-> ServerMeta]

\* the inputs of one kind, in document order
OfKind(st, kind) == SelectSeq(st, LAMBDA r : r.kind = kind)

InputFeedBody(c, listed) ==
    IF Len(listed) = 0 THEN [feed |-> [title |-> "feed"]]
    ELSE IF Len(listed) = 1
         THEN [feed |-> [title |-> "feed", entry |-> InputEntry(c, listed[1])]]
         ELSE [feed |-> [title |-> "feed",
                         entry |-> [list |-> [i \in DOMAIN listed |->
                                                 InputEntry(c, listed[i])]]]]

\* the status the server answers a request on the subpath of a kind with
KindStatus(s, kind) ==
    IF s.status # 200 THEN s.status
    ELSE IF kind \in s.failing THEN 503
    ELSE IF kind \in s.absent THEN 404
    ELSE 200

\* GET of the subpath of a kind
ServiceGetKind(s, st, c, kind) ==
    IF KindStatus(s, kind) # 200
    THEN [raised |-> TRUE, status |-> KindStatus(s, kind), body |-> EmptyDict]
    ELSE [raised |-> FALSE, status |-> 200,
          body |-> InputFeedBody(c, OfKind(st, kind))]

\* the Inputs built for the entries of the response of one kind, each tagged
\* with the first kind of the directory
InputsOfFirstKind(c, s, kind, entries) ==
    IF entries = NoneObject THEN <<>>
    ELSE [i \in DOMAIN entries.list |->
             Input(s, _parse_atom_entry(entries.list[i]).links.alternate,
                   c.kinds[1], _parse_atom_entry(entries.list[i])).e]

\* the Inputs built for the entries of the response of one kind
InputsOf(c, s, kind, entries) ==
    IF entries = NoneObject THEN <<>>
    ELSE [i \in DOMAIN entries.list |->
             Input(s, _parse_atom_entry(entries.list[i]).links.alternate,
                   kind, _parse_atom_entry(entries.list[i])).e]

\* the loop of a list that ends at the first kind that answers 404
RECURSIVE InputsListLoopStopping(_, _, _, _, _, _)
InputsListLoopStopping(c, s, st, kinds, reqs, entities) ==
    LET Step(kind, resp, reqs1) ==
            IF resp.raised
            THEN IF resp.status = 404
                 THEN CResult(reqs1, "ok", [list |-> entities])
                 ELSE CResult(reqs1, "HTTPError", HTTPError(resp.status))
            ELSE InputsListLoopStopping(
                     c, s, st, Tail(kinds), reqs1,
                     entities \o InputsOf(c, s, kind, _load_atom_entries(resp)))
    IN IF kinds = <<>> THEN CResult(reqs, "ok", [list |-> entities])
       ELSE IF Head(kinds) \notin DOMAIN c.kindmap
            THEN CResult(reqs, "KeyError", KeyError(Head(kinds)))
            ELSE Step(Head(kinds), ServiceGetKind(s, st, c, Head(kinds)),
                      Append(reqs, Req("GET", kindpath(c, Head(kinds)),
                                       [count |-> 0 - 1])))

\* Inputs.list: the loop over the kinds still to visit
RECURSIVE InputsListLoop(_, _, _, _, _, _)
\* a list that returns the inputs it has gathered when a kind fails
RECURSIVE InputsListLoopPartial(_, _, _, _, _, _)
InputsListLoopPartial(c, s, st, kinds, reqs, entities) ==
    LET Step(kind, resp, reqs1) ==
            IF resp.raised
            THEN IF resp.status = 404
                 THEN InputsListLoopPartial(c, s, st, Tail(kinds), reqs1, entities)
                 ELSE CResult(reqs1, "ok", [list |-> entities])
            ELSE InputsListLoopPartial(
                     c, s, st, Tail(kinds), reqs1,
                     entities \o InputsOf(c, s, kind, _load_atom_entries(resp)))
    IN IF kinds = <<>> THEN CResult(reqs, "ok", [list |-> entities])
       ELSE IF Head(kinds) \notin DOMAIN c.kindmap
            THEN CResult(reqs, "ok", [list |-> entities])
            ELSE Step(Head(kinds), ServiceGetKind(s, st, c, Head(kinds)),
                      Append(reqs, Req("GET", kindpath(c, Head(kinds)),
                                       [count |-> 0 - 1])))

\* a list that asks a kind that answered 404 once more before it goes on
RECURSIVE InputsListLoopRetrying(_, _, _, _, _, _)
InputsListLoopRetrying(c, s, st, kinds, reqs, entities) ==
    LET Step(kind, resp, reqs1) ==
            IF resp.raised
            THEN IF resp.status = 404
                 THEN InputsListLoopRetrying(
                          c, s, st, Tail(kinds),
                          Append(reqs1, reqs1[Len(reqs1)]), entities)
                 ELSE CResult(reqs1, "HTTPError", HTTPError(resp.status))
            ELSE InputsListLoopRetrying(
                     c, s, st, Tail(kinds), reqs1,
                     entities \o InputsOf(c, s, kind, _load_atom_entries(resp)))
    IN IF kinds = <<>> THEN CResult(reqs, "ok", [list |-> entities])
       ELSE IF Head(kinds) \notin DOMAIN c.kindmap
            THEN CResult(reqs, "KeyError", KeyError(Head(kinds)))
            ELSE Step(Head(kinds), ServiceGetKind(s, st, c, Head(kinds)),
                      Append(reqs, Req("GET", kindpath(c, Head(kinds)),
                                       [count |-> 0 - 1])))

InputsListLoop(c, s, st, kinds, reqs, entities) ==
    LET Step(kind, resp, reqs1) ==
            IF resp.raised
            THEN IF resp.status = 404
                 THEN InputsListLoop(c, s, st, Tail(kinds), reqs1, entities)
                 ELSE CResult(reqs1, "HTTPError", HTTPError(resp.status))
            ELSE InputsListLoop(
                     c, s, st, Tail(kinds), reqs1,
                     entities \o InputsOf(c, s, kind, _load_atom_entries(resp)))
    IN IF kinds = <<>> THEN CResult(reqs, "ok", [list |-> entities])
       ELSE IF Head(kinds) \notin DOMAIN c.kindmap
            THEN CResult(reqs, "KeyError", KeyError(Head(kinds)))
            ELSE Step(Head(kinds), ServiceGetKind(s, st, c, Head(kinds)),
                      Append(reqs, Req("GET", kindpath(c, Head(kinds)),
                                       [count |-> 0 - 1])))

\* Inputs.list(*args): the kinds given, or all kinds of the directory
InputsList(c, s, st, args) ==
    InputsListLoop(c, s, st, IF Len(args) > 0 THEN args ELSE c.kinds,
                   <<>>, <<>>)

\* inputs[key]: Collection.__getitem__ over Inputs.list()
InputsGetItem(c, s, st, key) ==
    LET Pick(r, names) ==
            IF \E i \in DOMAIN names : names[i] = key
            THEN [r EXCEPT !.ret = @.list[First(names, key)]]
            ELSE [r EXCEPT !.outcome = "KeyError", !.ret = KeyError(key)]
        Scan(r) ==
            IF r.outcome # "ok" THEN r ELSE Pick(r, ItemNames(s, r.ret.list))
    IN Scan(InputsList(c, s, st, <<>>))

\* inputs.contains(name): Collection.contains over Inputs.list()
InputsContains(c, s, st, name) ==
    LET Scan(r) ==
            IF r.outcome # "ok" THEN [r EXCEPT !.ret = FALSE]
            ELSE [r EXCEPT !.ret =
                     \E i \in DOMAIN @.list : ItemNames(s, @.list)[i] = name]
    IN Scan(InputsList(c, s, st, <<>>))

\* DELETE of the path of an input: 404 when the server has no input there
ServiceDeleteInput(s, st, c, path) ==
    IF s.status # 200 THEN [raised |-> TRUE, status |-> s.status]
    ELSE IF \A i \in DOMAIN st : EndpointPath(InputAlternate(c, st[i])) # path
         THEN [raised |-> TRUE, status |-> 404]
         ELSE [raised |-> FALSE, status |-> 200]

StoreAfterDeleteInput(s, st, c, path) ==
    IF ServiceDeleteInput(s, st, c, path).raised THEN st
    ELSE SelectSeq(st, LAMBDA r : EndpointPath(InputAlternate(c, r)) # path)

\* a delete that removes the inputs of the name of every kind
InputsDeleteRequestEveryKind(c, s, st, p) ==
    LET Answered(resp) ==
            SResult(Append(p.reqs, Req("DELETE", p.path, EmptyDict)),
                    IF resp.raised THEN "HTTPError" ELSE "ok",
                    IF resp.raised THEN HTTPError(resp.status) ELSE Self,
                    IF resp.raised THEN st
                    ELSE SelectSeq(st, LAMBDA r : r.name # p.name))
    IN Answered(ServiceDeleteInput(s, st, c, p.path))

\* Inputs.delete(name), from its DELETE on: self.service.delete(path) of the
\* path its lookup found, and return self; p is the call in flight
InputsDeleteRequest(c, s, st, p) ==
    LET Answered(resp) ==
            SResult(Append(p.reqs, Req("DELETE", p.path, EmptyDict)),
                    IF resp.raised THEN "HTTPError" ELSE "ok",
                    IF resp.raised THEN HTTPError(resp.status) ELSE Self,
                    StoreAfterDeleteInput(s, st, c, p.path))
    IN Answered(ServiceDeleteInput(s, st, c, p.path))

\* the form field of a name: a value that is no string is sent as its str()
FormValue(name) == IF IsString(name) THEN name.str ELSE "5"

\* POST of the fields of a new input to the subpath of its kind
ServicePostInput(s, st, kind, fields) ==
    IF KindStatus(s, kind) # 200
    THEN [raised |-> TRUE, status |-> KindStatus(s, kind)]
    ELSE IF \E i \in DOMAIN st : st[i] = [name |-> fields.name, kind |-> kind]
         THEN [raised |-> TRUE, status |-> 409]
         ELSE [raised |-> FALSE, status |-> 200]

StoreAfterPostInput(s, st, kind, fields) ==
    IF ServicePostInput(s, st, kind, fields).raised THEN st
    ELSE Append(st, [name |-> fields.name, kind |-> kind])

\* the resource of an input as a GET of its own path sees it
InputResource(s, name) ==
    [title |-> name, content |-> EmptyDict, status |-> s.status, lag |-> 0]

\* a create that posts for a kind the directory does not have
InputsCreateUncheckedKind(c, s, st, kind, name, kwargs) ==
    LET Built(post, st1, r) ==
            [reqs |-> <<post>> \o r.reqs, sleeps |-> r.sleeps,
             outcome |-> r.outcome,
             ret |-> IF r.outcome = "ok" THEN r.e ELSE NoneObject,
             store |-> st1]
        Posted(post, resp, st1) ==
            IF resp.raised
            THEN SResult(<<post>>, "HTTPError", HTTPError(resp.status), st1)
            ELSE IF ~IsString(name)
                 THEN SResult(<<post>>, "TypeError",
                              [raised |-> "TypeError", key |-> "base + name"],
                              st1)
                 ELSE Built(post, st1,
                            Input(InputResource(s, name.str),
                                  _path(kindpath(c, kind), name.str), kind,
                                  NoState))
    IN IF kind \notin DOMAIN c.kindmap
       THEN SResult(<<Req("POST", c.path \o <<kind>>,
                          Merge(kwargs, [k \in {"name"} |-> FormValue(name)]))>>,
                    "HTTPError", HTTPError(404), st)
       ELSE Posted(Req("POST", kindpath(c, kind),
                       Merge(kwargs, [k \in {"name"} |-> FormValue(name)])),
                   ServicePostInput(s, st, kind,
                       Merge(kwargs, [k \in {"name"} |-> FormValue(name)])),
                   StoreAfterPostInput(s, st, kind,
                       Merge(kwargs, [k \in {"name"} |-> FormValue(name)])))

\* Inputs.create(kind, name, **kwargs): the POST to the subpath of the kind,
\* then Input(self.service, _path(kindpath, name), kind), whose _path fails
\* with TypeError for a name that is no string
InputsCreate(c, s, st, kind, name, kwargs) ==
    LET Built(post, st1, r) ==
            [reqs |-> <<post>> \o r.reqs, sleeps |-> r.sleeps,
             outcome |-> r.outcome,
             ret |-> IF r.outcome = "ok" THEN r.e ELSE NoneObject,
             store |-> st1]
        Posted(post, resp, st1) ==
            IF resp.raised
            THEN SResult(<<post>>, "HTTPError", HTTPError(resp.status), st1)
            ELSE IF ~IsString(name)
                 THEN SResult(<<post>>, "TypeError",
                              [raised |-> "TypeError", key |-> "base + name"],
                              st1)
                 ELSE Built(post, st1,
                            Input(InputResource(s, name.str),
                                  _path(kindpath(c, kind), name.str), kind,
                                  NoState))
    IN IF kind \notin DOMAIN c.kindmap
       THEN SResult(<<>>, "KeyError", KeyError(kind), st)
       ELSE Posted(Req("POST", kindpath(c, kind),
                       Merge(kwargs, [k \in {"name"} |-> FormValue(name)])),
                   ServicePostInput(s, st, kind,
                       Merge(kwargs, [k \in {"name"} |-> FormValue(name)])),
                   StoreAfterPostInput(s, st, kind,
                       Merge(kwargs, [k \in {"name"} |-> FormValue(name)])))

-----------------------------------------------------------------------------
(* The state machine of the Inputs collection and the server's inputs.  A   *)
(* delete is two steps, its lookup and its DELETE: other clients act        *)
(* between the two requests.                                                *)

\* the kinds list is called with
ListArgs ==
    {<<>>, <<"ad", "tcp">>, <<"tcp", "ad", "udp">>, <<"nosuch">>,
     <<"tcp", "nosuch", "udp">>}

\* the arguments Inputs.create is called with, and the names delete is
\* called with
CreateKinds == {"tcp", "nosuch"}
InputNames == {PyStr("a"), PyInt(5)}
InputFields == {[index |-> "main"]}
DeletedNames == Names \cup {"c"}

InputsServer(absent, failing) ==
    [title |-> "t1", content |-> EmptyDict, status |-> 200, lag |-> 0,
     absent |-> absent, failing |-> failing]

InitInputs ==
    /\ ent = NoEntity("Entity")
    /\ srv \in {InputsServer(a, {}) : a \in SUBSET AbsentKinds}
    /\ coll \in {InputsInit(order) : order \in KindOrders}
    /\ store \in InputStores(MaxEntries)
    /\ pending = NoPending
    /\ call = [op |-> "init"]

\* inputs.list(*kinds)
DoInputsList ==
    /\ pending = NoPending
    /\ \E args \in ListArgs :
          ApplyColl("list", [kinds |-> args], InputsList(coll, srv, store, args))

\* inputs.create(kind, name, **kwargs)
DoInputsCreate ==
    /\ pending = NoPending
    /\ Len(store) < MaxEntries
    /\ \E kind \in CreateKinds : \E name \in InputNames :
       \E kwargs \in InputFields :
          ApplyStore("create", [kind |-> kind, name |-> name, kwargs |-> kwargs],
                     InputsCreate(coll, srv, store, kind, name, kwargs))

\* inputs.delete(name), up to its DELETE: self[name]; a lookup that fails
\* ends the call
InputsDeleteLookup(name, r) ==
    /\ pending' = IF r.outcome = "ok"
                  THEN [op |-> "delete", name |-> name, path |-> r.ret.path,
                        reqs |-> r.reqs]
                  ELSE NoPending
    /\ call' = [op |-> IF r.outcome = "ok" THEN "delete_lookup" ELSE "delete",
                args |-> [name |-> name], reqs |-> r.reqs, sleeps |-> 0,
                outcome |-> r.outcome, ret |-> r.ret]
    /\ UNCHANGED <<ent, srv, coll, store>>

DoInputsDeleteLookup ==
    /\ pending = NoPending
    /\ \E name \in DeletedNames :
          InputsDeleteLookup(name, InputsGetItem(coll, srv, store, name))

\* inputs.delete(name), its DELETE and its return
InputsDeleteDone(r) ==
    /\ pending' = NoPending
    /\ store' = r.store
    /\ call' = [op |-> "delete", args |-> [name |-> pending.name],
                reqs |-> r.reqs, sleeps |-> 0, outcome |-> r.outcome,
                ret |-> r.ret]
    /\ UNCHANGED <<ent, srv, coll>>

DoInputsDeleteRequest ==
    /\ pending.op = "delete"
    /\ InputsDeleteDone(InputsDeleteRequest(coll, srv, store, pending))

\* another client creates an input
InputAdd ==
    /\ Len(store) < MaxEntries
    /\ \E r \in InputResources :
          /\ \A i \in DOMAIN store : store[i] # r
          /\ store' = Append(store, r)
    /\ call' = [op |-> "env"]
    /\ UNCHANGED <<ent, srv, coll, pending>>

\* the endpoint of a kind starts or stops being absent, or failing
KindChange ==
    /\ \/ \E k \in AbsentKinds :
             srv' = [srv EXCEPT !.absent = IF k \in @ THEN @ \ {k} ELSE @ \cup {k}]
       \/ \E k \in FailingKinds :
             srv' = [srv EXCEPT !.failing = IF k \in @ THEN @ \ {k} ELSE @ \cup {k}]
    /\ call' = [op |-> "env"]
    /\ UNCHANGED <<ent, coll, store, pending>>

NextInputs ==
    \/ DoInputsList
    \/ DoInputsCreate
    \/ DoInputsDeleteLookup
    \/ DoInputsDeleteRequest
    \/ InputAdd
    \/ StoreRemove
    \/ KindChange
    \/ ServerStatus

SpecInputs == InitInputs /\ [][NextInputs]_vars

-----------------------------------------------------------------------------
(* The claims about an Entity *)

\* the step is a call of the operation op (every step records itself)
IsCall(op) == call'.op = op

\* the entry a successful GET of the entity's resource decodes to
Decoded(s, path) == _parse_atom_entry(ServerEntry(s, path))

\* C1: Job.read() against a job resource that answers 204 for the first k
\* GETs and a decodable success afterwards returns the decoded state if
\* k < 10 and fails with OperationError if k >= 10.
C1_JobReadOutcome ==
    [][(IsCall("read") /\ ent.cls = "Job" /\ srv.status = 200) =>
          IF srv.lag < 10
          THEN call'.outcome = "ok" /\ call'.ret = Decoded(srv, ent.path)
          ELSE call'.outcome = "OperationError"]_vars

\* a Job.read() that ran out of attempts
C1_Witness ==
    call.op = "read" /\ ent.cls = "Job" /\ call.outcome = "OperationError"

\* C2: a key that is a member of the entity resolves to the member, by
\* entity.X and by entity['X'] alike; content is consulted only when there is
\* no member, defaults only when there is neither member nor content key.
C2_CascadeOrdering ==
    (call.op \in {"getattr", "getitem"} /\ call.args.key \in Members(ent.cls))
        => (call.outcome = "ok" /\ call.ret.src = "member")

C5_ReadKeepsState ==
    [][IsCall("read") =>
          /\ ent' = ent
          /\ Len(call'.reqs) >= 1
          /\ \A i \in DOMAIN call'.reqs :
                call'.reqs[i] = Req("GET", ent.path, EmptyDict)
          /\ call'.outcome = "ok" =>
                call'.ret = Decoded([srv EXCEPT !.lag = 0], ent.path)]_vars

\* a read() that returned a state other than the cached one
C5_Witness ==
    call.op = "read" /\ call.outcome = "ok" /\ call.ret # ent.state

\* C6: refresh(state) adopts a given state and issues no request; without a
\* state it performs one read() and adopts its result; if that read fails the
\* failure propagates and the cached state stays as it was.  On success it
\* returns the entity.
C6_Refresh ==
    [][IsCall("refresh") =>
          IF call'.args.state # NoState
          THEN /\ call'.reqs = <<>>
               /\ call'.outcome = "ok" /\ call'.ret = Self
               /\ ent' = [ent EXCEPT !.state = call'.args.state]
          ELSE /\ call'.reqs = Read(ent, srv).reqs
               /\ srv' = Read(ent, srv).srv
               /\ ent.cls # "Job" =>
                     call'.reqs = <<Req("GET", ent.path, EmptyDict)>>
               /\ call'.outcome = Read(ent, srv).outcome
               /\ IF call'.outcome = "ok"
                  THEN /\ ent' = [ent EXCEPT !.state = Read(ent, srv).ret]
                       /\ call'.ret = Self
                  ELSE ent' = ent]_vars

\* a refresh() whose read failed, the cached state still there
C6_Witness ==
    /\ call.op = "refresh" /\ call.args.state = NoState
    /\ call.outcome = "HTTPError" /\ ent.state # NoState

\* C7: for every Entity variant, update() with a field mapping that has the
\* key name fails with ValueError and issues no POST.
C7_RenameRejected ==
    (call.op = "update" /\ "name" \in DOMAIN call.args.kwargs)
        => (call.outcome = "ValueError" /\ call.reqs = <<>>)

\* C8: Entity.update(fields) without the key name issues one POST of the
\* fields to the entity's own path and no GET, returns the entity and leaves
\* it, its cached state included, as it was: field access keeps returning the
\* cached values.
C8_UpdateKeepsState ==
    [][(IsCall("update") /\ UsesEntityUpdate(ent.cls)
        /\ "name" \notin DOMAIN call'.args.kwargs) =>
          /\ call'.reqs = <<Req("POST", ent.path, call'.args.kwargs)>>
          /\ call'.outcome = "ok" => call'.ret = Self
          /\ ent' = ent
          /\ \A key \in LookupKeys(ent.cls) :
                EntityGetItem(ent', srv', key).ret = EntityGetItem(ent, srv, key).ret]_vars

\* an update() after which the cached content is not the server's any more
C8_Witness ==
    /\ call.op = "update" /\ UsesEntityUpdate(ent.cls) /\ call.outcome = "ok"
    /\ "name" \notin DOMAIN call.args.kwargs
    /\ call.reqs # <<>>
    /\ srv.content # ent.state.content

-----------------------------------------------------------------------------
(* The claims about a Collection *)

\* C9: when the collection GET answers a feed with no entries, list()
\* returns an empty sequence, not None and not an error, and contains(name)
\* is false for every name.
C9_EmptyFeed ==
    /\ (call.op = "list" /\ srv.status = 200
        /\ Listed(store, [count |-> call.args.count]) = <<>>) =>
          (call.outcome = "ok" /\ call.ret = [list |-> <<>>])
    /\ (call.op = "contains" /\ srv.status = 200 /\ store = <<>>) =>
          (call.outcome = "ok" /\ call.ret = FALSE)

\* a list() of a collection without resources
C9_Witness ==
    call.op = "list" /\ store = <<>> /\ call.outcome = "ok" /\ call.ret.list = <<>>

\* C10: list() on a feed of n entries issues one GET, to the collection path
\* with the count and the filters as query arguments, and returns n items in
\* document order; item i is built by the item factory on the alternate link
\* of entry i, with the parsed entry i as its state, and reading its name
\* issues no request.
C10_ListItems ==
    (call.op = "list" /\ srv.status = 200) =>
        LET args == Merge(call.args.kwargs, [k \in {"count"} |-> call.args.count])
            listed == Listed(store, args)
        IN /\ call.outcome = "ok"
           /\ call.reqs = <<Req("GET", coll.path, args)>>
           /\ Len(call.ret.list) = Len(listed)
           /\ \A i \in DOMAIN listed :
                 /\ call.ret.list[i].cls = coll.item
                 /\ call.ret.list[i].alive
                 /\ call.ret.list[i].path =
                       EndpointPath(AlternatePath(coll.path, listed[i]))
                 /\ call.ret.list[i].path # coll.path
                 /\ call.ret.list[i].state =
                       _parse_atom_entry(FeedEntry(coll, listed[i]))
                 /\ EntityAccessor(call.ret.list[i], srv, "name") =
                       Result(call.ret.list[i], srv, <<>>, 0, "ok", listed[i].name)

\* a list() that returned several items
C10_Witness ==
    call.op = "list" /\ call.outcome = "ok" /\ Len(call.ret.list) >= 2

\* the names of the server's resources, in document order
StoreNames(st) == [i \in DOMAIN st |-> st[i].name]

\* the item a listing builds for the resource r of the server
ExpectedItem(c, r) ==
    [cls |-> c.item, alive |-> TRUE,
     path |-> EndpointPath(AlternatePath(c.path, r)),
     state |-> _parse_atom_entry(FeedEntry(c, r))]

\* C11: for a feed whose entries have the titles t1..tn in document order,
\* keys() and plain iteration yield [t1..tn] in that order, len() is n,
\* contains(name) is true exactly when name is some ti, and collection[name]
\* is the first listed item of that name, or fails with a KeyError for the
\* name when there is none.
C11_MappingView ==
    (srv.status = 200 /\ coll.cls # "Users") =>
        /\ (call.op = "view" /\ call.args.which \in {"keys", "iter"}) =>
              (call.outcome = "ok" /\ call.ret = [list |-> StoreNames(store)])
        /\ (call.op = "view" /\ call.args.which = "len") =>
              (call.outcome = "ok" /\ call.ret = Len(store))
        /\ call.op = "contains" =>
              /\ call.outcome = "ok"
              /\ call.ret = (\E i \in DOMAIN store : store[i].name = call.args.name)
        /\ call.op = "item" =>
              IF \E i \in DOMAIN store : store[i].name = call.args.key
              THEN /\ call.outcome = "ok"
                   /\ \E i \in DOMAIN store :
                         /\ store[i].name = call.args.key
                         /\ \A j \in 1..(i - 1) : store[j].name # call.args.key
                         /\ call.ret = ExpectedItem(coll, store[i])
              ELSE /\ call.outcome = "KeyError"
                   /\ call.ret = KeyError(call.args.key)

\* collection[name] with two listed items of that name: the first is returned
C11_Witness ==
    /\ call.op = "item" /\ call.outcome = "ok" /\ coll.cls # "Users"
    /\ Len(store) >= 2
    /\ store[1].name = call.args.key /\ store[2].name = call.args.key
    /\ call.ret = ExpectedItem(coll, store[1])

\* C12: every call of list, contains, collection[name], len, keys, plain
\* iteration, iteritems and itervalues issues its own GET on the collection
\* path and computes its result from that response alone: the result is what
\* the server holds at the call, and the Collection object, which has no
\* field for a listing, is left as it was.
C12_NoCaching ==
    [][call'.op \in {"list", "contains", "item", "view"} =>
          /\ coll' = coll
          /\ DOMAIN coll' = {"cls", "path", "item"}
          /\ Len(call'.reqs) = 1
          /\ call'.reqs[1].method = "GET" /\ call'.reqs[1].path = coll.path
          /\ srv.status # 200 => call'.outcome = "HTTPError"
          /\ srv.status = 200 =>
                LET key == IF call'.op = "contains" THEN call'.args.name
                           ELSE IF call'.op = "item" THEN call'.args.key
                           ELSE "none"
                    asked == IF coll.cls = "Users" THEN Lower(key) ELSE key
                    listed == IF call'.op = "list"
                              THEN Listed(store', [count |-> call'.args.count])
                              ELSE store'
                    items == [i \in DOMAIN listed |-> ExpectedItem(coll, listed[i])]
                    which == IF call'.op = "view" THEN call'.args.which ELSE "none"
                IN CASE call'.op = "list" -> call'.ret = [list |-> items]
                     [] call'.op = "contains" ->
                           call'.ret = (\E i \in DOMAIN listed : listed[i].name = asked)
                     [] call'.op = "item" ->
                           IF \E i \in DOMAIN listed : listed[i].name = asked
                           THEN call'.outcome = "ok" /\ call'.ret \in
                                   {items[i] : i \in {j \in DOMAIN listed :
                                                        listed[j].name = asked}}
                           ELSE call'.outcome = "KeyError"
                     [] which \in {"iter", "keys"} ->
                           call'.ret = [list |-> StoreNames(listed)]
                     [] which = "len" -> call'.ret = Len(listed)
                     [] which = "iteritems" ->
                           call'.ret = [list |-> [i \in DOMAIN listed |->
                                                    <<listed[i].name, items[i]>>]]
                     [] which = "itervalues" -> call'.ret = [list |-> items]]_vars

\* an iteritems() that issued its one GET and returned several pairs
C12_Witness ==
    /\ call.op = "view" /\ call.args.which = "iteritems" /\ call.outcome = "ok"
    /\ Len(call.reqs) = 1 /\ Len(call.ret.list) >= 2

\* the name a call of the class sends to the server
Sent(c, name) == IF c.cls = "Users" THEN Lower(name) ELSE name

\* the server holds a resource of the name
Holds(st, name) == \E i \in DOMAIN st : st[i].name = name

\* C13: delete(name) issues one DELETE to <collection path>/<name>; a 404
\* answer is raised as a KeyError that names the entity, any other status
\* that is no success propagates as the HTTPError it is, and on success the
\* collection itself is returned.
C13_DeleteOutcome ==
    [][IsCall("delete") =>
          /\ call'.reqs = <<Req("DELETE",
                                coll.path \o <<Sent(coll, call'.args.name)>>,
                                EmptyDict)>>
          /\ coll' = coll
          /\ LET resp == ServiceDelete(srv, store, Sent(coll, call'.args.name))
             IN IF ~resp.raised
                THEN call'.outcome = "ok" /\ call'.ret = Self
                ELSE IF resp.status = 404
                     THEN /\ call'.outcome = "KeyError"
                          /\ call'.ret.raised = "KeyError"
                          /\ call'.ret.key[2] = Sent(coll, call'.args.name)
                     ELSE /\ call'.outcome = "HTTPError"
                          /\ call'.ret = HTTPError(resp.status)]_vars

\* a delete whose DELETE was answered with a status other than 404
C13_Witness ==
    /\ call.op = "delete" /\ call.outcome = "HTTPError"
    /\ call.ret.status = 500

\* C14: delete(name) of a name the server holds succeeds, and a contains(name)
\* right after it is false; delete(name) of a name the server does not hold
\* fails with a KeyError and leaves the server's resources as they were.
C14_DeleteObservable ==
    [][(IsCall("delete") /\ srv.status = 200) =>
          IF Holds(store, Sent(coll, call'.args.name))
          THEN /\ call'.outcome = "ok"
               /\ store' # store
               /\ Contains(coll', srv', store', call'.args.name).outcome = "ok"
               /\ Contains(coll', srv', store', call'.args.name).ret = FALSE
          ELSE /\ call'.outcome = "KeyError"
               /\ store' = store]_vars

\* a delete of one of two resources: the other one is still there
C14_Witness ==
    /\ call.op = "delete" /\ call.outcome = "ok"
    /\ store # <<>> /\ ~Holds(store, Sent(coll, call.args.name))

\* the name a create of the class sends to the server
SentName(c, name) == IF c.cls = "Users" THEN Lower(name.str) ELSE name.str

\* C16: create(name, fields) issues one POST of name and the fields to the
\* collection path and then one lookup of the name by a fresh listing; when
\* the server stores the resource under that name, create returns an entity
\* of that name, and a get(name) right after it returns an entity of that
\* name too.
C16_CreateThenGet ==
    [][(IsCall("create") /\ IsString(call'.args.name) /\ srv.status = 200
        /\ [name |-> SentName(coll, call'.args.name), app |-> ServiceApp]
              \notin {store[i] : i \in DOMAIN store}) =>
          LET sent == SentName(coll, call'.args.name)
              after == GetItem(coll', srv', store', call'.args.name.str)
          IN /\ call'.reqs =
                   <<Req("POST", coll.path,
                         Merge(call'.args.kwargs, [k \in {"name"} |-> sent])),
                     Req("GET", coll.path, [count |-> 0 - 1])>>
             /\ Holds(store', sent)
             /\ call'.outcome = "ok"
             /\ call'.ret.cls = coll.item /\ call'.ret.alive
             /\ call'.ret.state.title = sent
             /\ EntityAccessor(call'.ret, srv', "name").ret = sent
             /\ after.outcome = "ok"
             /\ EntityAccessor(after.ret, srv', "name").ret = sent]_vars

\* a create that returned the entity of its name while the server holds
\* another resource
C16_Witness ==
    /\ call.op = "create" /\ call.outcome = "ok" /\ Len(store) >= 2
    /\ call.ret.state.title = call.args.name.str
    /\ store[Len(store)].name = call.args.name.str

\* C20 as stated: when the POST to search/jobs answers the sid "12345",
\* Jobs.create returns a Job whose path is search/jobs/12345 and whose name
\* is "12345".
C20_JobPathUnnormalized ==
    (call.op = "create_job" /\ call.outcome = "ok"
     /\ store[Len(store)].name = "12345") =>
        /\ call.ret.path = <<"search", Slash, "jobs", Slash, "12345">>
        /\ EntityAccessor(call.ret, srv, "name").ret = "12345"

\* C20, amended: when the POST to search/jobs answers the sid "12345" and the
\* job's resource answers the read of the constructor within its 10 attempts,
\* Jobs.create returns a Job whose path is search/jobs/12345/, normalized to
\* end with the separator, and whose name, the sid of the entry it read from
\* that path, is "12345"; with 10 or more "not ready" answers it fails with
\* OperationError.
C20_JobPathNormalized ==
    (call.op = "create_job" /\ srv.status = 200
     /\ DictGet(call.args.kwargs, "exec_mode", None) # "oneshot"
     /\ store[Len(store)].name = "12345") =>
        LET path == <<"search", Slash, "jobs", Slash, "12345", Slash>>
        IN /\ call.reqs[1] = Req("POST", coll.path,
                                 Merge(call.args.kwargs,
                                       [k \in {"search"} |-> call.args.query]))
           /\ \A i \in 2..Len(call.reqs) :
                 call.reqs[i] = Req("GET", path, EmptyDict)
           /\ IF call.args.lag < 10
              THEN /\ call.outcome = "ok"
                   /\ Len(call.reqs) = call.args.lag + 2
                   /\ call.ret.cls = "Job" /\ call.ret.alive
                   /\ call.ret.path = path
                   /\ EntityAccessor(call.ret, srv, "name") =
                         Result(call.ret, srv, <<>>, 0, "ok", "12345")
              ELSE /\ call.outcome = "OperationError"
                   /\ Len(call.reqs) = 11

\* a Job created with the sid "12345" after the server answered "not ready"
C20_Witness ==
    /\ call.op = "create_job" /\ call.outcome = "ok" /\ call.args.lag > 0
    /\ call.ret.state.content.sid = "12345"

-----------------------------------------------------------------------------
(* The claims about the Inputs collection *)

\* C15: for every Collection variant, Inputs included, a delete whose DELETE
\* the server answers with 404 is raised as a KeyError and never as the
\* HTTPError of status 404, whatever another client does between the lookup
\* and the DELETE.
C15_DeleteNeverRaw404 ==
    call.op = "delete" =>
        ~(call.outcome = "HTTPError" /\ call.ret.status = 404)

\* C17: create with a name that is no string fails with ValueError and sends
\* no request.
C17_InvalidNameFailsFast ==
    (call.op = "create" /\ ~IsString(call.args.name)) =>
        (call.outcome = "ValueError" /\ call.reqs = <<>>)

\* the kinds a list visits
Visited(c, args) == IF Len(args) > 0 THEN args ELSE c.kinds

\* the Input a listing builds for the input r of the server
ExpectedInput(c, r) ==
    [cls |-> "Input", alive |-> TRUE,
     path |-> EndpointPath(InputAlternate(c, r)),
     state |-> _parse_atom_entry(InputEntry(c, r)), kind |-> r.kind]

\* the Inputs of the kinds in visiting order, none for a kind the server has
\* no endpoint for
RECURSIVE ExpectedInputs(_, _, _, _)
ExpectedInputs(c, s, st, kinds) ==
    IF kinds = <<>> THEN <<>>
    ELSE (IF Head(kinds) \in s.absent THEN <<>>
          ELSE [i \in DOMAIN OfKind(st, Head(kinds)) |->
                   ExpectedInput(c, OfKind(st, Head(kinds))[i])])
         \o ExpectedInputs(c, s, st, Tail(kinds))

\* C18: in Inputs.list over kinds of the directory, a kind whose subpath
\* answers 404 contributes no items and does not make the call fail: every
\* kind after it is still fetched and its items are returned.  An HTTPError
\* of another status, from any kind's subpath, ends the call at that kind
\* and reaches the caller as it is.
C18_KindedListTolerance ==
    (call.op = "list"
     /\ \A i \in DOMAIN call.args.kinds : call.args.kinds[i] \in DOMAIN coll.kindmap) =>
        LET visited == Visited(coll, call.args.kinds)
            bad == {i \in DOMAIN visited :
                       KindStatus(srv, visited[i]) \notin {200, 404}}
        IN IF bad = {}
           THEN /\ call.outcome = "ok"
                /\ Len(call.reqs) = Len(visited)
                /\ \A i \in DOMAIN visited :
                      call.reqs[i].path = coll.path \o INPUT_KINDMAP[visited[i]]
                /\ call.ret = [list |-> ExpectedInputs(coll, srv, store, visited)]
           ELSE /\ call.outcome = "HTTPError"
                /\ \E i \in bad :
                      /\ \A j \in bad : i <= j
                      /\ Len(call.reqs) = i
                      /\ call.ret = HTTPError(KindStatus(srv, visited[i]))

\* a list that met a kind answering 404 and returned an input of a kind
\* visited after it
C18_Witness ==
    /\ call.op = "list" /\ call.outcome = "ok"
    /\ \E i, j \in DOMAIN Visited(coll, call.args.kinds) :
          /\ i < j
          /\ Visited(coll, call.args.kinds)[i] \in srv.absent
          /\ \E k \in DOMAIN call.ret.list :
                call.ret.list[k].kind = Visited(coll, call.args.kinds)[j]

\* C19: a successful Inputs.list issues one GET per requested kind (per kind
\* of the directory when none is given), to <inputs path><subpath of the
\* kind> with count=-1, and returns, in the order the kinds are visited, one
\* Input per entry of each response: its kind is the kind it was fetched for,
\* its path is the alternate link of its entry, and its state is the parsed
\* entry, so that reading its name issues no request.
C19_KindedListMerge ==
    (call.op = "list" /\ call.outcome = "ok") =>
        LET visited == Visited(coll, call.args.kinds)
            fetched(i) == IF KindStatus(srv, visited[i]) = 200
                          THEN OfKind(store, visited[i]) ELSE <<>>
        IN /\ call.reqs = [i \in DOMAIN visited |->
                              Req("GET", kindpath(coll, visited[i]),
                                  [count |-> 0 - 1])]
           /\ Len(call.ret.list) =
                 Cardinality({<<i, k>> \in (DOMAIN visited) \X (DOMAIN store) :
                                 k \in DOMAIN fetched(i)})
           /\ \A i \in DOMAIN visited : \A k \in DOMAIN fetched(i) :
                 \E n \in DOMAIN call.ret.list :
                    LET item == call.ret.list[n]
                    IN /\ item.kind = visited[i]
                       /\ item.cls = "Input" /\ item.alive
                       /\ item.path = EndpointPath(InputAlternate(coll, fetched(i)[k]))
                       /\ item.state = _parse_atom_entry(InputEntry(coll, fetched(i)[k]))
                       /\ EntityAccessor(item, srv, "name") =
                             Result(item, srv, <<>>, 0, "ok", fetched(i)[k].name)
           /\ \A m, n \in DOMAIN call.ret.list :
                 m < n =>
                    \E i, j \in DOMAIN visited :
                       /\ i <= j
                       /\ call.ret.list[m].kind = visited[i]
                       /\ call.ret.list[n].kind = visited[j]

\* a list over two kinds that returned an input of each
C19_Witness ==
    /\ call.op = "list" /\ call.outcome = "ok" /\ Len(call.args.kinds) >= 2
    /\ Len(call.ret.list) >= 2
    /\ call.ret.list[1].kind # call.ret.list[2].kind

-----------------------------------------------------------------------------
(* The Atom decoder applied to the entries a feed can hold *)

\* every record that holds some of the keys of full, with full's values
SubRecords(full) == {Restrict(full, ks) : ks \in SUBSET (DOMAIN full)}

\* the eai:attributes of an entry
AtomAttributes ==
    SubRecords([requiredFields |-> <<"name">>,
                optionalFields |-> <<"x", "y">>,
                wildcardFields |-> <<"w.*">>])

\* the content of an entry: the reserved keys and one key of the entity
AtomContents ==
    UNION {SubRecords(Merge([k \in {"eai:acl", "type", "search"} |->
                                CASE k = "eai:acl" -> "acl"
                                  [] k = "type" -> "text"
                                  [] k = "search" -> "s1"],
                            [k \in {"eai:attributes"} |-> a])) :
           a \in AtomAttributes}

\* the link children of an entry: one record, or a list of records
AtomLinks ==
    LET alt == [rel |-> "alternate", href |-> <<"a">>]
        edit == [rel |-> "edit", href |-> <<"a", Slash, "edit">>]
        list == [rel |-> "alternate", href |-> <<"b">>]
    IN {alt, edit} \cup
       {[list |-> l] : l \in {<<>>, <<alt>>, <<edit>>, <<alt, edit>>,
                              <<alt, list>>}}

AtomEntries ==
    UNION {SubRecords([title |-> "t1", link |-> l, content |-> c]) :
           <<l, c>> \in AtomLinks \X AtomContents}

InitAtom ==
    /\ ent = NoEntity("Entity")
    /\ srv = IdleServer
    /\ coll = NoCollection
    /\ store = <<>>
    /\ pending = NoPending
    /\ call = [op |-> "init"]

ParseEntry ==
    \E entry \in AtomEntries :
       /\ call' = [op |-> "_parse_atom_entry", args |-> [entry |-> entry],
                   ret |-> _parse_atom_entry(entry)]
       /\ UNCHANGED <<ent, srv, coll, store, pending>>

ParseMetadata ==
    \E content \in AtomContents :
       /\ call' = [op |-> "_parse_atom_metadata",
                   args |-> [content |-> content],
                   ret |-> _parse_atom_metadata(content)]
       /\ UNCHANGED <<ent, srv, coll, store, pending>>

NextAtom == ParseEntry \/ ParseMetadata

SpecAtom == InitAtom /\ [][NextAtom]_vars

-----------------------------------------------------------------------------
(* claims about the Atom decoder *)

\* C21: the content of a decoded entry holds exactly the keys of the entry's
\* content other than eai:acl, eai:attributes and type, each with its value
\* unchanged; its access is the value of eai:acl, and its fields.required,
\* fields.optional and fields.wildcard are the requiredFields, optionalFields
\* and wildcardFields lists of eai:attributes.
C21_ReservedKeysStripped ==
    (call.op = "_parse_atom_entry" /\ "content" \in DOMAIN call.args.entry) =>
       LET content == call.args.entry.content
           parsed == call.ret
           attributes == content["eai:attributes"]
       IN /\ DOMAIN parsed.content =
                (DOMAIN content) \ {"eai:acl", "eai:attributes", "type"}
          /\ \A k \in DOMAIN parsed.content : parsed.content[k] = content[k]
          /\ "eai:acl" \in DOMAIN content =>
                parsed.access = content["eai:acl"]
          /\ "eai:attributes" \in DOMAIN content =>
                /\ "requiredFields" \in DOMAIN attributes =>
                      parsed.fields.required = attributes.requiredFields
                /\ "optionalFields" \in DOMAIN attributes =>
                      parsed.fields.optional = attributes.optionalFields
                /\ "wildcardFields" \in DOMAIN attributes =>
                      parsed.fields.wildcard = attributes.wildcardFields

\* an entry with all three reserved keys, a key of its own and all three
\* field lists was decoded
C21_Witness ==
    /\ call.op = "_parse_atom_entry"
    /\ "content" \in DOMAIN call.args.entry
    /\ DOMAIN call.args.entry.content =
          {"eai:acl", "eai:attributes", "type", "search"}
    /\ DOMAIN call.args.entry.content["eai:attributes"] =
          {"requiredFields", "optionalFields", "wildcardFields"}
    /\ DOMAIN call.ret.content = {"search"}

\* C22: a lone link record and a list of link records decode to the same
\* shape, a mapping from relation to href; one link decodes as the list of
\* that one link does; an entry without a link child decodes to the empty
\* mapping.
C22_LinkNormalization ==
    call.op = "_parse_atom_entry" =>
       LET entry == call.args.entry
           links == call.ret.links
       IN IF "link" \notin DOMAIN entry THEN links = EmptyDict
          ELSE IF IsList(entry.link)
          THEN /\ DOMAIN links =
                     {entry.link.list[i].rel : i \in DOMAIN entry.link.list}
               /\ \A r \in DOMAIN links :
                     \E i \in DOMAIN entry.link.list :
                        /\ entry.link.list[i].rel = r
                        /\ entry.link.list[i].href = links[r]
          ELSE /\ links = [r \in {entry.link.rel} |-> entry.link.href]
               /\ links =
                     _parse_atom_entry([entry EXCEPT
                                           !.link = [list |-> <<entry.link>>]]).links

\* an entry with a lone link record was decoded to a mapping of one relation
C22_Witness ==
    /\ call.op = "_parse_atom_entry"
    /\ "link" \in DOMAIN call.args.entry
    /\ ~IsList(call.args.entry.link)
    /\ DOMAIN call.ret.links = {call.args.entry.link.rel}

\* C23 (as stated): an entry without a content child decodes to the empty
\* content, and its access and its fields are both absent.
C23_NoContentAbsentFields ==
    (call.op = "_parse_atom_entry" /\ "content" \notin DOMAIN call.args.entry) =>
       /\ call.ret.content = EmptyDict
       /\ call.ret.access = None
       /\ call.ret.fields = NoneObject

\* C23: an entry without a content child decodes, without an error, to the
\* empty content and the access None; its fields are a record of three empty
\* lists, required, optional and wildcard.
C23_NoContentEmptyFields ==
    (call.op = "_parse_atom_entry" /\ "content" \notin DOMAIN call.args.entry) =>
       /\ call.ret.content = EmptyDict
       /\ call.ret.access = None
       /\ call.ret.fields =
             [required |-> <<>>, optional |-> <<>>, wildcard |-> <<>>]

\* an entry with a title and a link but no content was decoded
C23_Witness ==
    /\ call.op = "_parse_atom_entry"
    /\ DOMAIN call.args.entry = {"title", "link"}
    /\ call.ret.title = "t1"
    /\ call.ret.access = None

-----------------------------------------------------------------------------
(* The deployment collections and the Loggers collection *)

PATH_DEPLOYMENT_CLIENTS == <<"deployment", Slash, "client", Slash>>
PATH_DEPLOYMENT_SERVERCLASSES == <<"deployment", Slash, "serverclass", Slash>>
PATH_LOGGER == <<"server", Slash, "logger", Slash>>

\* the collections of service.deployment_clients, deployment_tenants,
\* deployment_servers, deployment_serverclasses and loggers
DeploymentProperties ==
    {"deployment_clients", "deployment_tenants", "deployment_servers",
     "deployment_serverclasses", "loggers"}

\* DeploymentCollection(service, path, item), DeploymentServers(service),
\* DeploymentServerClasses(service) and Loggers(service)
DeploymentInit(property) ==
    CASE property = "deployment_clients" ->
            [cls |-> "DeploymentCollection",
             path |-> EndpointPath(PATH_DEPLOYMENT_CLIENTS),
             item |-> "DeploymentClient"]
      [] property = "deployment_tenants" ->
            [cls |-> "DeploymentCollection",
             path |-> EndpointPath(PATH_DEPLOYMENT_TENANTS),
             item |-> "DeploymentTenant"]
      [] property = "deployment_servers" ->
            [cls |-> "DeploymentServers",
             path |-> EndpointPath(PATH_DEPLOYMENT_SERVERS),
             item |-> "DeploymentServer"]
      [] property = "deployment_serverclasses" ->
            [cls |-> "DeploymentServerClasses",
             path |-> EndpointPath(PATH_DEPLOYMENT_SERVERCLASSES),
             item |-> "DeploymentServerClass"]
      [] property = "loggers" ->
            [cls |-> "Loggers", path |-> EndpointPath(PATH_LOGGER),
             item |-> "Entity"]

NotSupportedError(message) == [raised |-> "NotSupportedError", key |-> message]

\* DeploymentCollection.create
DeploymentCollectionCreate(c, s, st, name, kwargs) ==
    SResult(<<>>, "NotSupportedError",
            NotSupportedError(<<"Cannot create", c.cls, "with the REST API.">>),
            st)

\* DeploymentCollection.delete
DeploymentCollectionDelete(c, s, st, name) ==
    SResult(<<>>, "NotSupportedError",
            NotSupportedError(<<"Cannot delete", c.cls, "with the REST API.">>),
            st)

\* DeploymentServers.create
DeploymentServersCreate(c, s, st, name, kwargs) ==
    SResult(<<>>, "NotSupportedError",
            NotSupportedError(<<"Cannot create deployment servers with the REST API.">>),
            st)

\* 'blacklist.%d' % i and 'whitelist.%d' % i
ListKey(key, i) ==
    CASE key = "blacklist" /\ i = 0 -> "blacklist.0"
      [] key = "blacklist" /\ i = 1 -> "blacklist.1"
      [] key = "whitelist" /\ i = 0 -> "whitelist.0"
      [] key = "whitelist" /\ i = 1 -> "whitelist.1"

\* for i, v in enumerate(kwargs[key]): kwargs['key.%d' % i] = v, and then
\* kwargs.pop(key)
Enumerated(kwargs, key) ==
    IF key \notin DOMAIN kwargs THEN kwargs
    ELSE LET values == kwargs[key].list
         IN [k \in ((DOMAIN kwargs) \ {key}) \cup
                   {ListKey(key, i - 1) : i \in DOMAIN values} |->
                IF \E i \in DOMAIN values : k = ListKey(key, i - 1)
                THEN values[CHOOSE i \in DOMAIN values : k = ListKey(key, i - 1)]
                ELSE kwargs[k]]

\* DeploymentServerClasses.create
DeploymentServerClassesCreate(c, s, st, name, kwargs) ==
    LET Filtered(kw) ==
            IF "filterType" \in DOMAIN kw THEN kw
            ELSE Merge(kw, [k \in {"filterType"} |-> "blacklist"])
    IN CollectionCreate(c, s, st, name,
                        Filtered(Enumerated(Enumerated(kwargs, "blacklist"),
                                            "whitelist")))

\* a delete that every class takes from Collection
DeploymentDeleteOfCollection(c, s, st, name) == CollectionDelete(c, s, st, name)

\* collection.delete(name), by class: DeploymentServers and
\* DeploymentServerClasses take theirs from DeploymentCollection, Loggers
\* from Collection
DeploymentDelete(c, s, st, name) ==
    IF c.cls = "Loggers" THEN CollectionDelete(c, s, st, name)
    ELSE DeploymentCollectionDelete(c, s, st, name)

\* collection.create(name, **kwargs), by class
DeploymentCreate(c, s, st, name, kwargs) ==
    CASE c.cls = "DeploymentCollection" ->
            DeploymentCollectionCreate(c, s, st, name, kwargs)
      [] c.cls = "DeploymentServers" ->
            DeploymentServersCreate(c, s, st, name, kwargs)
      [] c.cls = "DeploymentServerClasses" ->
            DeploymentServerClassesCreate(c, s, st, name, kwargs)
      [] c.cls = "Loggers" -> CollectionCreate(c, s, st, name, kwargs)

\* Collection.itemmeta: the metadata of the entry the server sends for _new
CollectionItemmeta(c, s) ==
    CResult(<<Req("GET", EndpointUrl(c.path, <<"_new">>), EmptyDict)>>,
            IF s.status # 200 THEN "HTTPError" ELSE "ok",
            IF s.status # 200 THEN HTTPError(s.status)
            ELSE _parse_atom_metadata(ServerMeta))

\* Loggers.itemmeta
LoggersItemmeta(c, s) ==
    CResult(<<>>, "NotSupportedError", NotSupportedError(<<>>))

\* collection.itemmeta(), by class
Itemmeta(c, s) ==
    IF c.cls = "Loggers" THEN LoggersItemmeta(c, s)
    ELSE CollectionItemmeta(c, s)

\* DeploymentServerClass.delete
DeploymentServerClassDelete(e, s, kwargs) ==
    Result(e, s, <<>>, 0, "NotSupportedError",
           NotSupportedError(<<"Cannot delete server classes via the REST API">>))

-----------------------------------------------------------------------------
(* The state machine of a deployment collection or the Loggers collection *)

\* the fields a server class is created with
ServerClassFields ==
    {EmptyDict, [filterType |-> "whitelist"],
     [blacklist |-> [list |-> <<"h1", "h2">>]],
     [whitelist |-> [list |-> <<"h3">>], x |-> "1"]}

InitDeployment ==
    /\ ent = NoEntity("Entity")
    /\ srv = IdleServer
    /\ coll \in {DeploymentInit(p) : p \in DeploymentProperties}
    /\ store \in Stores(MaxEntries)
    /\ pending = NoPending
    /\ call = [op |-> "init"]

\* collection.create(name, **kwargs)
DoDeploymentCreate ==
    /\ Len(store) < MaxEntries
    /\ \E name \in {PyStr("a"), PyInt(5)} :
       \E kwargs \in IF coll.cls = "DeploymentServerClasses"
                     THEN ServerClassFields ELSE CreateFields :
          ApplyStore("create", [name |-> name, kwargs |-> kwargs],
                     DeploymentCreate(coll, srv, store, name, kwargs))

\* collection.delete(name)
DoDeploymentDelete ==
    \E name \in Names \cup {"c"} :
        ApplyStore("delete", [name |-> name],
                   DeploymentDelete(coll, srv, store, name))

\* collection.itemmeta()
DoItemmeta == ApplyColl("itemmeta", EmptyDict, Itemmeta(coll, srv))

\* item.delete(**kwargs) on a server class that a listing gave
DoServerClassDelete ==
    /\ coll.item = "DeploymentServerClass"
    /\ \E i \in DOMAIN store : \E kwargs \in CreateFields :
          LET item == Item(coll, srv, _parse_atom_entry(FeedEntry(coll, store[i])))
              Done(r) ==
                 ApplyColl("item.delete", [item |-> item, kwargs |-> kwargs],
                           [reqs |-> r.reqs, sleeps |-> r.sleeps,
                            outcome |-> r.outcome, ret |-> r.ret])
          IN Done(DeploymentServerClassDelete(item, srv, kwargs))

NextDeployment ==
    \/ DoList
    \/ DoDeploymentCreate
    \/ DoDeploymentDelete
    \/ DoItemmeta
    \/ DoServerClassDelete
    \/ StoreAdd
    \/ StoreRemove
    \/ ServerStatus

SpecDeployment == InitDeployment /\ [][NextDeployment]_vars

-----------------------------------------------------------------------------
(* claims about the operations that are not supported *)

\* the step is one of the operations that the class of the collection, or of
\* its item, does not support
Unsupported ==
    \/ IsCall("create") /\ coll.cls \in {"DeploymentCollection", "DeploymentServers"}
    \/ IsCall("delete") /\ coll.cls \in {"DeploymentCollection", "DeploymentServers",
                                         "DeploymentServerClasses"}
    \/ IsCall("item.delete") /\ call'.args.item.cls = "DeploymentServerClass"
    \/ IsCall("itemmeta") /\ coll.cls = "Loggers"

\* C24: create and delete on a DeploymentCollection (clients and tenants),
\* create and delete on DeploymentServers, delete on DeploymentServerClasses,
\* delete on a DeploymentServerClass entity and itemmeta on Loggers fail with
\* NotSupportedError whatever their arguments, issue no request and leave the
\* server as it was.
C24_NotSupportedNoRequest ==
    [][Unsupported =>
          /\ call'.outcome = "NotSupportedError"
          /\ call'.ret.raised = "NotSupportedError"
          /\ call'.reqs = <<>>
          /\ store' = store]_vars

\* a delete of a name the server holds was refused by DeploymentServerClasses
C24_Witness ==
    /\ call.op = "delete" /\ coll.cls = "DeploymentServerClasses"
    /\ \E i \in DOMAIN store : store[i].name = call.args.name
    /\ call.outcome = "NotSupportedError" /\ call.reqs = <<>>

-----------------------------------------------------------------------------
(* Index *)

PATH_INDEXES == <<"data", Slash, "indexes", Slash>>

\* record(*keys): the record of those keys; a missing key raises KeyError
RecordCall(rec, keys) ==
    IF keys \subseteq DOMAIN rec THEN Restrict(rec, keys)
    ELSE KeyError(CHOOSE k \in keys : k \notin DOMAIN rec)

\* two steps of an operation, one after the other
Chain(p, r) ==
    Result(r.e, r.srv, p.reqs \o r.reqs, p.sleeps + r.sleeps, r.outcome, r.ret)

\* Index.roll_hot_buckets
IndexRollHotBuckets(e, s) ==
    PostAndReturnSelf(e, s, EndpointUrl(e.path, <<"roll-hot-buckets">>), EmptyDict)

\* a wait loop that runs while count <= timeout
RECURSIVE CleanLoopOneMore(_, _, _, _, _, _)
CleanLoopOneMore(e, s, count, timeout, reqs, sleeps) ==
    LET Refreshed(r) ==
            IF r.outcome # "ok"
            THEN Result(r.e, r.srv, reqs \o r.reqs, sleeps + 1, r.outcome, r.ret)
            ELSE CleanLoopOneMore(r.e, r.srv, count + 1, timeout,
                                  reqs \o r.reqs, sleeps + 1)
    IN IF e.state.content.totalEventCount # "0" /\ count <= timeout
       THEN Refreshed(EntityRefresh(e, s, NoState))
       ELSE Result(e, s, reqs, sleeps, "ok", Self)

\* Index.clean: the wait loop, from the test of the iteration with the given
\* count on
RECURSIVE CleanLoop(_, _, _, _, _, _)
CleanLoop(e, s, count, timeout, reqs, sleeps) ==
    LET Refreshed(r) ==
            IF r.outcome # "ok"
            THEN Result(r.e, r.srv, reqs \o r.reqs, sleeps + 1, r.outcome, r.ret)
            ELSE CleanLoop(r.e, r.srv, count + 1, timeout,
                           reqs \o r.reqs, sleeps + 1)
    IN IF e.state.content.totalEventCount # "0" /\ count < timeout
       THEN Refreshed(EntityRefresh(e, s, NoState))
       ELSE Result(e, s, reqs, sleeps, "ok", Self)

\* the values clean lowers the two settings to
Lowest == [k \in {"maxTotalDataSizeMB", "frozenTimePeriodInSecs"} |-> "1"]

\* a clean that raises its time-out before it restores the settings
IndexCleanRaisingFirst(e, s, timeout) ==
    LET Ended(r) ==
            IF r.outcome # "ok" THEN r ELSE [r EXCEPT !.ret = Self]
        Waited(w, saved) ==
            IF w.outcome # "ok" THEN w
            ELSE IF w.e.state.content.totalEventCount # "0"
                 THEN [w EXCEPT !.outcome = "OperationError", !.ret = None]
                 ELSE Ended(Chain(w, EntityUpdate(w.e, w.srv, saved)))
        Rolled(p, saved) ==
            IF p.outcome # "ok" THEN p
            ELSE Waited(Chain(p, CleanLoop(p.e, p.srv, 0, timeout, <<>>, 0)),
                        saved)
        Lowered(p, saved) ==
            IF p.outcome # "ok" THEN p
            ELSE Rolled(Chain(p, IndexRollHotBuckets(p.e, p.srv)), saved)
        Saved(r, saved) ==
            IF "raised" \in DOMAIN saved
            THEN [r EXCEPT !.outcome = "KeyError", !.ret = None]
            ELSE Lowered(Chain(r, EntityUpdate(r.e, r.srv, Lowest)), saved)
        Refreshed(r) ==
            IF r.outcome # "ok" THEN r
            ELSE Saved(r, RecordCall(r.e.state.content, DOMAIN Lowest))
    IN Refreshed(EntityRefresh(e, s, NoState))

\* Index.clean(timeout)
IndexClean(e, s, timeout) ==
    LET Ended(r) ==
            IF r.outcome # "ok" THEN r
            ELSE IF r.e.state.content.totalEventCount # "0"
                 THEN [r EXCEPT !.outcome = "OperationError", !.ret = None]
                 ELSE [r EXCEPT !.ret = Self]
        Waited(w, saved) ==
            IF w.outcome # "ok" THEN w
            ELSE Ended(Chain(w, EntityUpdate(w.e, w.srv, saved)))
        Rolled(p, saved) ==
            IF p.outcome # "ok" THEN p
            ELSE Waited(Chain(p, CleanLoop(p.e, p.srv, 0, timeout, <<>>, 0)),
                        saved)
        Lowered(p, saved) ==
            IF p.outcome # "ok" THEN p
            ELSE Rolled(Chain(p, IndexRollHotBuckets(p.e, p.srv)), saved)
        Saved(r, saved) ==
            IF "raised" \in DOMAIN saved
            THEN [r EXCEPT !.outcome = "KeyError", !.ret = None]
            ELSE Lowered(Chain(r, EntityUpdate(r.e, r.srv, Lowest)), saved)
        Refreshed(r) ==
            IF r.outcome # "ok" THEN r
            ELSE Saved(r, RecordCall(r.e.state.content, DOMAIN Lowest))
    IN Refreshed(EntityRefresh(e, s, NoState))

-----------------------------------------------------------------------------
(* The state machine of one Index and its server resource *)

\* the longest an index takes to empty, in answered GETs, and the largest
\* timeout clean is called with
MaxDrain == 4
MaxTimeout == 3

\* the index resources of a server: one that holds events holds them for
\* drain answered GETs more, or for ever when drain is 0
IndexResources ==
    {[title |-> "main", status |-> 200, lag |-> 0, drain |-> d,
      content |-> [totalEventCount |-> n, maxTotalDataSizeMB |-> m,
                   frozenTimePeriodInSecs |-> "1000"]] :
        <<n, d, m>> \in ({"0"} \X {0} \X {"500", "1"}) \cup
                        ({"7"} \X (0..MaxDrain) \X {"500", "1"})}

InitIndex ==
    /\ ent = NoEntity("Index")
    /\ srv \in IndexResources
    /\ coll = NoCollection
    /\ store = <<>>
    /\ pending = NoPending
    /\ call = [op |-> "init"]

\* Index(service, PATH_INDEXES + name)
ConstructIndex ==
    /\ ~ent.alive
    /\ Apply("construct", [path |-> PATH_INDEXES \o <<srv.title>>],
             EntityInit("Index", srv, PATH_INDEXES \o <<srv.title>>, NoState))

\* index.clean(timeout)
DoClean ==
    /\ ent.alive
    /\ \E timeout \in 0..MaxTimeout :
          Apply("clean", [timeout |-> timeout], IndexClean(ent, srv, timeout))

\* index.refresh()
DoIndexRefresh ==
    /\ ent.alive
    /\ Apply("refresh", [state |-> NoState], EntityRefresh(ent, srv, NoState))

\* events arrive, or the settings of the index are changed by another client
IndexChange ==
    /\ \E r \in IndexResources :
          /\ r.content # srv.content \/ r.drain # srv.drain
          /\ srv' = [srv EXCEPT !.content = r.content, !.drain = r.drain]
    /\ call' = [op |-> "env"]
    /\ UNCHANGED <<ent, coll, store, pending>>

NextIndex ==
    \/ ConstructIndex
    \/ DoClean
    \/ DoIndexRefresh
    \/ IndexChange
    \/ ServerStatus

SpecIndex == InitIndex /\ [][NextIndex]_vars

-----------------------------------------------------------------------------
(* claims about Index.clean *)

\* the number of GETs among the requests of the last call
Gets(reqs) == Cardinality({i \in DOMAIN reqs : reqs[i].method = "GET"})

\* C25: clean(timeout) ends for every server that answers its requests; after
\* its first refresh it refreshes at most timeout times, once after each wait,
\* while the cached totalEventCount is not '0'; it raises OperationError when
\* the count it last read is still not '0', and then it has used all its
\* timeout refreshes; it returns the index itself when it read '0'.
C25_CleanBounded ==
    [][IsCall("clean") =>
          /\ call'.outcome \in {"ok", "OperationError", "HTTPError"}
          /\ call'.outcome = "HTTPError" <=> srv.status # 200
          /\ call'.outcome # "HTTPError" =>
                /\ Gets(call'.reqs) - 1 <= call'.args.timeout
                /\ call'.sleeps = Gets(call'.reqs) - 1
                /\ call'.outcome = "ok" <=>
                      ent'.state.content.totalEventCount = "0"
                /\ call'.outcome = "ok" => call'.ret = Self /\ ent'.path = ent.path
                /\ call'.outcome = "OperationError" =>
                      Gets(call'.reqs) - 1 = call'.args.timeout
                /\ (srv.content.totalEventCount # "0"
                      /\ srv.drain \in 1..call'.args.timeout) =>
                      /\ call'.outcome = "ok"
                      /\ Gets(call'.reqs) - 1 = srv.drain]_vars

\* a clean that waited twice and then read the count '0'
C25_Witness ==
    /\ call.op = "clean" /\ call.outcome = "ok"
    /\ call.sleeps = 2 /\ call.args.timeout = 3
    /\ ent.state.content.totalEventCount = "0"

-----------------------------------------------------------------------------
(* claims about the actions, the path and the requests of an Entity *)

\* C29: a Job.read whose first k GETs are answered 204 issues min(k + 1, 10)
\* GETs, all on the path of the job, and waits min(k, 10) times; the GET
\* that is not answered 204 is its last; with k >= 10 it fails with
\* OperationError after 10 GETs and 10 waits.
C29_ReadBudget ==
    [][(IsCall("read") /\ ent.cls = "Job") =>
          LET k == srv.lag
          IN /\ Len(call'.reqs) = IF k + 1 < MaxAttempts THEN k + 1 ELSE MaxAttempts
             /\ call'.sleeps = IF k < MaxAttempts THEN k ELSE MaxAttempts
             /\ \A i \in DOMAIN call'.reqs :
                   call'.reqs[i] = Req("GET", ent.path, EmptyDict)
             /\ srv'.lag = k - call'.sleeps
             /\ call'.outcome = "OperationError" <=> k >= MaxAttempts
             /\ ent' = ent]_vars

\* a read that met 204 ten times: ten GETs and ten waits
C29_Witness ==
    /\ call.op = "read" /\ ent.cls = "Job"
    /\ Len(call.reqs) = MaxAttempts /\ call.sleeps = MaxAttempts
    /\ call.outcome = "OperationError"

\* C26: enable(), disable() and reload() each issue exactly one POST, without
\* fields, to the sub-path enable, disable and _reload of the entity, and no
\* GET; they leave the cached state and the path as they were and return the
\* entity itself.
C26_ActionPostsOnly ==
    [][IsCall("action") =>
          LET relpath == CASE call'.args.method = "enable" -> "enable"
                           [] call'.args.method = "disable" -> "disable"
                           [] call'.args.method = "reload" -> "_reload"
          IN /\ call'.reqs = <<Req("POST", ent.path \o <<relpath>>, EmptyDict)>>
             /\ ent' = ent
             /\ srv.status = 200 => call'.outcome = "ok" /\ call'.ret = Self]_vars

\* a reload that succeeded on an entity whose cached state is not what the
\* server holds
C26_Witness ==
    /\ call.op = "action" /\ call.args.method = "reload"
    /\ call.outcome = "ok"
    /\ ent.state # Decoded(srv, ent.path)

-----------------------------------------------------------------------------
(* claims about failed requests *)

\* the call is a list over kinds of the directory
ListOfKnownKinds ==
    /\ call.op = "list"
    /\ \A i \in DOMAIN call.args.kinds : call.args.kinds[i] \in DOMAIN coll.kindmap

\* C28 (as stated): a request that the transport fails ends the operation:
\* the failure reaches the caller after that one request, and no request is
\* issued again.
C28_FailureAlwaysPropagates ==
    ListOfKnownKinds =>
       LET visited == Visited(coll, call.args.kinds)
       IN /\ \A i \in DOMAIN call.reqs :
                KindStatus(srv, visited[i]) # 200 =>
                   i = Len(call.reqs) /\ call.outcome = "HTTPError"
          /\ \A i, j \in DOMAIN call.reqs : call.reqs[i] = call.reqs[j] => i = j

\* C28: no failed request is issued again, and a request that fails with a
\* status other than 404 ends the operation with that failure, unchanged, as
\* its last request; but Inputs.list takes a 404 of a kind for "no inputs of
\* this kind": the failure does not reach the caller and the list goes on
\* with the next kind.  A failed POST of Inputs.create ends the call after
\* that one request.
C28_NoReissue ==
    /\ ListOfKnownKinds =>
          LET visited == Visited(coll, call.args.kinds)
          IN /\ \A i, j \in DOMAIN call.reqs :
                   call.reqs[i] = call.reqs[j] => i = j
             /\ \A i \in DOMAIN call.reqs :
                   /\ call.reqs[i] = Req("GET", kindpath(coll, visited[i]),
                                         [count |-> 0 - 1])
                   /\ KindStatus(srv, visited[i]) \notin {200, 404} =>
                         /\ i = Len(call.reqs)
                         /\ call.outcome = "HTTPError"
                         /\ call.ret = HTTPError(KindStatus(srv, visited[i]))
                   /\ (KindStatus(srv, visited[i]) = 404 /\ i < Len(visited)) =>
                         Len(call.reqs) > i
             /\ call.outcome = "HTTPError" =>
                   KindStatus(srv, visited[Len(call.reqs)]) \notin {200, 404}
    /\ (call.op = "create" /\ call.outcome = "HTTPError") =>
          /\ Len(call.reqs) = 1
          /\ call.reqs[1].method = "POST"

\* a list whose first GET answered 404 and whose second GET failed with
\* another status
C28_Witness ==
    /\ call.op = "list" /\ call.outcome = "HTTPError"
    /\ Len(call.reqs) = 3
    /\ KindStatus(srv, call.args.kinds[2]) = 404
    /\ KindStatus(srv, call.args.kinds[3]) = 503

-----------------------------------------------------------------------------
(* claims about Inputs.create *)

\* C30: Inputs.create for a kind of the directory issues exactly one POST, of
\* the name and the fields, to the path of the collection followed by the
\* subpath of the kind; when the POST and the read of the new Input succeed
\* and the name is a string, it returns an Input of that kind whose path is
\* that path, '/', the name, '/'.  For a kind that is not in the directory
\* it fails with KeyError, sends no request and creates nothing.
C30_CreateByKind ==
    [][IsCall("create") =>
          LET kind == call'.args.kind
              name == call'.args.name
              posts == {i \in DOMAIN call'.reqs : call'.reqs[i].method = "POST"}
          IN IF kind \in DOMAIN INPUT_KINDMAP
             THEN /\ posts = {1}
                  /\ call'.reqs[1] =
                        Req("POST", PATH_INPUTS \o INPUT_KINDMAP[kind],
                            Merge(call'.args.kwargs,
                                  [k \in {"name"} |-> FormValue(name)]))
                  /\ (IsString(name) /\ KindStatus(srv, kind) = 200
                        /\ [name |-> name.str, kind |-> kind] \notin
                              {store[i] : i \in DOMAIN store}) =>
                        /\ call'.outcome = "ok"
                        /\ call'.ret.cls = "Input" /\ call'.ret.alive
                        /\ call'.ret.kind = kind
                        /\ call'.ret.path =
                              PATH_INPUTS \o INPUT_KINDMAP[kind]
                                 \o <<Slash, name.str, Slash>>
                        /\ store' = Append(store, [name |-> name.str, kind |-> kind])
             ELSE /\ call'.outcome = "KeyError"
                  /\ call'.ret = KeyError(kind)
                  /\ call'.reqs = <<>>
                  /\ store' = store]_vars

\* a create of a tcp input that returned the Input
C30_Witness ==
    /\ call.op = "create" /\ call.outcome = "ok"
    /\ call.args.kind = "tcp"
    /\ call.ret.kind = "tcp"
    /\ call.ret.path = <<"data", Slash, "inputs", Slash, "tcp", Slash, "raw",
                         Slash, call.args.name.str, Slash>>

-----------------------------------------------------------------------------
(* claims about the jobs of a search *)

\* C34: when the POST of Jobs.create has created the job and the job answers
\* 204 to each of the 10 GETs of the Job's constructor, create raises
\* OperationError and returns no Job; its requests are the POST and those 10
\* GETs, no DELETE and no other request, and the job is still on the server.
C34_CreateNotAtomic ==
    [][(IsCall("create_job") /\ srv.status = 200
          /\ DictGet(call'.args.kwargs, "exec_mode", None) # "oneshot"
          /\ call'.args.lag >= MaxAttempts) =>
          /\ call'.outcome = "OperationError"
          /\ call'.ret = NoneObject
          /\ Len(call'.reqs) = MaxAttempts + 1
          /\ call'.reqs[1].method = "POST"
          /\ \A i \in 2..Len(call'.reqs) : call'.reqs[i].method = "GET"
          /\ Len(store') = Len(store) + 1
          /\ SubSeq(store', 1, Len(store)) = store
          /\ store'[Len(store')].name \in Sids
          /\ \A i \in DOMAIN store : store[i].name # store'[Len(store')].name]_vars

\* a Jobs.create that timed out and left its job on the server
C34_Witness ==
    /\ call.op = "create_job" /\ call.outcome = "OperationError"
    /\ call.ret = NoneObject
    /\ Len(store) >= 1
    /\ Len(call.reqs) = MaxAttempts + 1

\* C31: Jobs.create with exec_mode "oneshot" and Jobs.oneshot with any
\* exec_mode fail with TypeError, send nothing and create nothing; a oneshot
\* without exec_mode issues exactly one POST, to search/jobs, of the query
\* and its arguments with exec_mode=oneshot and output_mode=json, issues no
\* GET, and returns the decoded results, not a Job.
C31_ExecModeGuard ==
    [][/\ (IsCall("create_job")
             /\ DictGet(call'.args.kwargs, "exec_mode", None) = "oneshot") =>
             /\ call'.outcome = "TypeError" /\ call'.reqs = <<>>
             /\ store' = store
       /\ IsCall("oneshot") =>
             IF "exec_mode" \in DOMAIN call'.args.kwargs
             THEN /\ call'.outcome = "TypeError" /\ call'.reqs = <<>>
                  /\ store' = store
             ELSE /\ call'.reqs =
                        <<Req("POST", PATH_JOBS,
                              Merge(call'.args.kwargs,
                                    [search |-> call'.args.query,
                                     exec_mode |-> "oneshot",
                                     output_mode |-> "json"]))>>
                  /\ store' = store
                  /\ call'.outcome = IF srv.status = 200 THEN "ok" ELSE "HTTPError"
                  /\ "cls" \notin DOMAIN call'.ret]_vars

\* a oneshot with an argument other than exec_mode returned its results
C31_Witness ==
    /\ call.op = "oneshot" /\ call.outcome = "ok"
    /\ "earliest_time" \in DOMAIN call.args.kwargs
    /\ "results" \in DOMAIN call.ret

-----------------------------------------------------------------------------
(* Two refresh() calls on one Entity, run by two threads.  A refresh is two  *)
(* steps, self.read() and the assignment of its result to self._state;       *)
(* the assignment of a reference is one step of the interpreter.             *)

\* an assignment that merges the content it read into the cached content
RefreshAssignMerging(e, state) ==
    [e EXCEPT !.state = [state EXCEPT !.content = Merge(e.state.content, @)]]

\* Entity.refresh: self._state = <what self.read() returned>
RefreshAssign(e, state) == [e EXCEPT !.state = state]

RaceClasses == {"Entity", "DeploymentServerClass"}
Threads == {1, 2}

\* a refresh() that has not read yet
Started == [pc |-> "start", val |-> NoState, at |-> 0]

InitRace ==
    /\ ent \in {NoEntity(cls) : cls \in RaceClasses}
    /\ srv \in Resources(ent.cls)
    /\ coll = NoCollection
    /\ store = <<>>
    /\ pending = NoPending
    /\ call = [op |-> "init"]

\* both threads call entity.refresh()
RefreshTwice ==
    /\ ent.alive
    /\ IF pending = NoPending THEN TRUE
       ELSE \A t \in Threads : pending.threads[t].pc = "done"
    /\ pending' = [op |-> "refresh", reads |-> 0,
                   threads |-> [t \in Threads |-> Started]]
    /\ call' = [op |-> "refresh.call"]
    /\ UNCHANGED <<ent, srv, coll, store>>

\* a thread runs self.read(): a failure ends its refresh
RefreshRead(t, r) ==
    /\ pending' = [pending EXCEPT
                      !.reads = @ + 1,
                      !.threads[t] =
                          IF r.outcome = "ok"
                          THEN [pc |-> "read", val |-> r.ret, at |-> pending.reads + 1]
                          ELSE [pc |-> "done", val |-> NoState, at |-> 0]]
    /\ srv' = r.srv
    /\ call' = [op |-> "refresh.read", args |-> [thread |-> t], reqs |-> r.reqs,
                sleeps |-> r.sleeps, outcome |-> r.outcome, ret |-> r.ret]
    /\ UNCHANGED <<ent, coll, store>>

DoRefreshRead ==
    /\ pending.op = "refresh"
    /\ \E t \in Threads :
          /\ pending.threads[t].pc = "start"
          /\ RefreshRead(t, Read(ent, srv))

\* a thread assigns what it read and returns
DoRefreshAssign ==
    /\ pending.op = "refresh"
    /\ \E t \in Threads :
          /\ pending.threads[t].pc = "read"
          /\ ent' = RefreshAssign(ent, pending.threads[t].val)
          /\ pending' = [pending EXCEPT !.threads[t].pc = "done"]
          /\ call' = [op |-> "refresh.assign", args |-> [thread |-> t],
                      reqs |-> <<>>, sleeps |-> 0, outcome |-> "ok", ret |-> Self]
    /\ UNCHANGED <<srv, coll, store>>

NextRace ==
    \/ Construct
    \/ RefreshTwice
    \/ DoRefreshRead
    \/ DoRefreshAssign
    \/ ServerChange
    \/ ServerStatus

SpecRace == InitRace /\ [][NextRace]_vars

\* C33: from the return of its constructor on, through every read, refresh,
\* update, enable, disable, reload and field access, whether it succeeds or
\* fails, an Entity holds a cached state, a parsed entry; so its accessors
\* and its field lookups issue no request and leave the server alone.
C33_StateNeverUnset ==
    [][/\ ent'.alive =>
             /\ ent'.state # NoState
             /\ DOMAIN ent'.state = {"title", "links", "access", "fields", "content"}
       /\ ent.alive => ent'.alive
       /\ (ent.alive /\ call'.op # "env" /\ call'.outcome # "ok") =>
             ent'.state = ent.state
       /\ call'.op \in {"accessor", "getattr", "getitem"} =>
             /\ \A i \in DOMAIN call'.reqs : call'.reqs[i].method # "GET"
             /\ srv' = srv /\ ent' = ent]_vars

\* a refresh that failed on an entity, which still holds its state
C33_Witness ==
    /\ call.op = "refresh" /\ call.outcome = "HTTPError"
    /\ ent.alive /\ ent.state # NoState

\* C32: when both refresh() calls have returned, the cached state is, whole,
\* what one of the two reads returned, with the title, links, access, fields
\* and content of that one read; it may be the older read.  Every
\* assignment on the way stores what its own thread read.
C32_RefreshKeepsCacheWhole ==
    [][/\ (pending'.op = "refresh"
             /\ (\A t \in Threads : pending'.threads[t].pc = "done")
             /\ (\E u \in Threads : pending'.threads[u].at > 0)) =>
             ent'.state \in {pending'.threads[w].val :
                               w \in {u \in Threads : pending'.threads[u].at > 0}}
       /\ IsCall("refresh.assign") =>
             /\ ent'.state = pending.threads[call'.args.thread].val
             /\ ent'.path = ent.path]_vars

\* both refreshes returned, the two reads differ, and the cache holds the
\* older one
C32_Witness ==
    /\ pending.op = "refresh"
    /\ \A t \in Threads : pending.threads[t].pc = "done" /\ pending.threads[t].at > 0
    /\ \E t, u \in Threads :
          /\ pending.threads[t].at < pending.threads[u].at
          /\ pending.threads[t].val # pending.threads[u].val
          /\ DOMAIN pending.threads[t].val.content #
                DOMAIN pending.threads[u].val.content
          /\ ent.state = pending.threads[t].val

-----------------------------------------------------------------------------
(* Collection.create while other clients use the server: the POST and the
   lookup of create are two requests, and the server may change between them *)

\* the names the server may store a resource of a given name under
StoredNames(name) == {name, Lower(name)}

InitCreate ==
    /\ InitColl
    /\ coll.cls \in {"Collection", "Users"}

\* collection.create(name, **kwargs) up to the answer to its POST
CreatePosted(name, kwargs, sent, stored, r) ==
    /\ pending' = IF r.outcome = "ok"
                  THEN [op |-> "create", name |-> sent, kwargs |-> kwargs,
                        stored |-> stored, reqs |-> r.reqs]
                  ELSE NoPending
    /\ store' = r.store
    /\ call' = [op |-> IF r.outcome = "ok" THEN "create_post" ELSE "create",
                args |-> [name |-> name, kwargs |-> kwargs], reqs |-> r.reqs,
                sleeps |-> 0, outcome |-> r.outcome, ret |-> r.ret]
    /\ UNCHANGED <<ent, srv, coll>>

DoCreatePost ==
    /\ pending = NoPending
    /\ Len(store) < MaxEntries
    /\ \E name \in CreateNames : \E kwargs \in CreateFields :
          IF coll.cls = "Users" /\ ~IsString(name)
          THEN CreatePosted(name, kwargs, None, None,
                            UsersCreate(coll, srv, store, name, kwargs))
          ELSE \E sent \in {IF coll.cls = "Users" /\ IsString(name)
                            THEN PyStr(Lower(name.str)) ELSE name} :
               \E stored \in IF IsString(sent) THEN StoredNames(sent.str)
                             ELSE {None} :
                  CreatePosted(name, kwargs,
                               IF IsString(sent) THEN sent.str ELSE None, stored,
                               CollectionCreatePost(coll, srv, store, sent,
                                                    kwargs, stored))

\* collection.create(name, **kwargs), its lookup and its return
DoCreateLookup ==
    /\ pending.op = "create"
    /\ LET Done(r) ==
               /\ pending' = NoPending
               /\ store' = r.store
               /\ call' = [op |-> "create",
                           args |-> [name |-> pending.name,
                                     kwargs |-> pending.kwargs,
                                     stored |-> pending.stored],
                           reqs |-> r.reqs, sleeps |-> 0,
                           outcome |-> r.outcome, ret |-> r.ret]
               /\ UNCHANGED <<ent, srv, coll>>
       IN Done(CollectionCreateLookup(coll, srv, store, pending))

NextCreate ==
    \/ DoCreatePost
    \/ DoCreateLookup
    \/ StoreAdd
    \/ StoreRemove
    \/ ServerStatus

SpecCreate == InitCreate /\ [][NextCreate]_vars

\* C35: create has no rollback. Its POST, once answered with success, has
\* added the resource to the server; the lookup that follows issues the one
\* listing GET and nothing else, no DELETE, and leaves the resources of the
\* server as they are whether it succeeds or fails. It fails with the
\* HTTPError of the listing when the listing fails, and with KeyError for the
\* name when no listed resource has exactly the name create was given, and
\* create then raises that error.
C35_CreateHasNoRollback ==
    [][ /\ IsCall("create_post") =>
              /\ srv.status = 200
              /\ store' = Append(store, [name |-> pending'.stored,
                                         app |-> ServiceApp])
              /\ call'.reqs =
                    <<Req("POST", coll.path,
                          Merge(pending'.kwargs,
                                [k \in {"name"} |-> pending'.name]))>>
        /\ (IsCall("create") /\ pending.op = "create") =>
              /\ call'.reqs = pending.reqs
                                \o <<Req("GET", coll.path, [count |-> 0 - 1])>>
              /\ \A i \in DOMAIN call'.reqs : call'.reqs[i].method # "DELETE"
              /\ store' = store
              /\ pending' = NoPending
              /\ call'.outcome =
                    IF srv.status # 200 THEN "HTTPError"
                    ELSE IF Holds(store, pending.name) THEN "ok"
                    ELSE "KeyError"
              /\ call'.outcome = "KeyError" => call'.ret = KeyError(pending.name)
              /\ call'.outcome = "ok" =>
                    call'.ret.cls = coll.item
                    /\ call'.ret.state.title = pending.name ]_vars

\* a create that raised KeyError for its name after its POST had succeeded,
\* the server having stored the resource under a normalized name: the
\* resource is on the server
C35_Witness ==
    /\ call.op = "create" /\ call.outcome = "KeyError"
    /\ Len(call.reqs) = 2 /\ call.reqs[1].method = "POST"
    /\ call.ret = KeyError("A") /\ call.args.stored = "a"
    /\ \E i \in DOMAIN store : store[i] = [name |-> "a", app |-> ServiceApp]

-----------------------------------------------------------------------------
(* The claims about Inputs.delete and the failures of Inputs.list *)

\* C36: Inputs.delete(name) first requests the listing of every kind of the
\* directory. When the listings succeed and no listed input has the name, it
\* fails with KeyError for the name and sends no DELETE. Otherwise it sends
\* exactly one DELETE, to the path of the first input of that name in listing
\* order; every input at another path stays on the server, also one of the
\* same name and another kind, and contains(name) then still answers true.
C36_DeleteFirstOfName ==
    [][ /\ (call'.op \in {"delete_lookup", "delete"} /\ pending = NoPending
            /\ srv.status = 200 /\ srv.failing = {}) =>
              LET listed == ExpectedInputs(coll, srv, store, coll.kinds)
                  hits == {i \in DOMAIN listed :
                              listed[i].state.title = call'.args.name}
              IN /\ call'.reqs =
                       [i \in DOMAIN coll.kinds |->
                           Req("GET", kindpath(coll, coll.kinds[i]),
                               [count |-> 0 - 1])]
                 /\ store' = store
                 /\ IF hits = {}
                    THEN /\ call'.op = "delete"
                         /\ call'.outcome = "KeyError"
                         /\ call'.ret = KeyError(call'.args.name)
                         /\ pending' = NoPending
                    ELSE /\ call'.op = "delete_lookup"
                         /\ pending'.op = "delete"
                         /\ pending'.path =
                               listed[CHOOSE i \in hits :
                                         \A j \in hits : i <= j].path
        /\ (IsCall("delete") /\ pending.op = "delete") =>
              /\ call'.reqs =
                    Append(pending.reqs, Req("DELETE", pending.path, EmptyDict))
              /\ Cardinality({i \in DOMAIN call'.reqs :
                                 call'.reqs[i].method = "DELETE"}) = 1
              /\ \A i \in DOMAIN store :
                    EndpointPath(InputAlternate(coll, store[i])) # pending.path
                        => \E j \in DOMAIN store' : store'[j] = store[i]
              /\ (/\ call'.outcome = "ok" /\ srv.failing = {}
                  /\ \E i \in DOMAIN store :
                        /\ store[i].name = pending.name
                        /\ EndpointPath(InputAlternate(coll, store[i]))
                              # pending.path) =>
                    /\ Len(store') = Len(store) - 1
                    /\ InputsContains(coll', srv', store', pending.name).ret
                    /\ InputsContains(coll', srv', store', pending.name).outcome
                          = "ok" ]_vars

\* a delete of a name two inputs of different kinds had: one DELETE was
\* sent and answered with success, and the other input is on the server
C36_Witness ==
    /\ call.op = "delete" /\ call.outcome = "ok"
    /\ call.reqs[Len(call.reqs)].method = "DELETE"
    /\ Len(store) = 1 /\ store[1].name = call.args.name

\* C37: Inputs.list is all-or-nothing. At the first visited kind that is not
\* in the directory, or whose GET fails with a status other than 404, the
\* call ends with the error (KeyError for the kind, or the HTTPError) and
\* returns no list, whatever the kinds before it answered; the kinds after it
\* are not requested, and a kind that is not in the directory is not
\* requested either.  Without such a kind the call returns a list.
C37_ListAllOrNothing ==
    call.op = "list" =>
        LET visited == Visited(coll, call.args.kinds)
            Ends(i) == \/ visited[i] \notin DOMAIN coll.kindmap
                       \/ KindStatus(srv, visited[i]) \notin {200, 404}
            ends == {i \in DOMAIN visited : Ends(i)}
            Stopped(i) ==
                /\ "list" \notin DOMAIN call.ret
                /\ "raised" \in DOMAIN call.ret
                /\ IF visited[i] \notin DOMAIN coll.kindmap
                   THEN /\ call.outcome = "KeyError"
                        /\ call.ret = KeyError(visited[i])
                        /\ Len(call.reqs) = i - 1
                   ELSE /\ call.outcome = "HTTPError"
                        /\ Len(call.reqs) = i
        IN /\ \A j \in DOMAIN call.reqs :
                 call.reqs[j] = Req("GET", kindpath(coll, visited[j]),
                                    [count |-> 0 - 1])
           /\ IF ends = {}
              THEN call.outcome = "ok" /\ "list" \in DOMAIN call.ret
              ELSE Stopped(CHOOSE i \in ends : \A j \in ends : i <= j)

\* a list that failed with the HTTPError of a kind after it had fetched a
\* kind with inputs and before it had requested every kind: it returned no
\* input
C37_Witness ==
    /\ call.op = "list" /\ call.outcome = "HTTPError"
    /\ "list" \notin DOMAIN call.ret
    /\ Len(call.reqs) < Len(Visited(coll, call.args.kinds))
    /\ \E i \in 1..(Len(call.reqs) - 1) :
          /\ KindStatus(srv, Visited(coll, call.args.kinds)[i]) = 200
          /\ OfKind(store, Visited(coll, call.args.kinds)[i]) # <<>>

-----------------------------------------------------------------------------
(* claims about the settings Index.clean lowers *)

\* C38: a clean none of whose requests fails issues, in this order, the GET
\* of its first refresh, the POST that lowers the two settings to 1, the POST
\* to roll-hot-buckets, the GETs of its wait loop (none or more), and one
\* POST of the two settings as the first refresh read them: that POST is its
\* last request and is issued once, whether clean then returns or raises its
\* time-out, and the server then holds the two settings as they were.
C38_CleanRestores ==
    [][(IsCall("clean") /\ srv.status = 200) =>
          LET saved == Restrict(srv.content, DOMAIN Lowest)
              last == Len(call'.reqs)
          IN /\ call'.outcome \in {"ok", "OperationError"}
             /\ last = Gets(call'.reqs) + 3
             /\ call'.reqs[1] = Req("GET", ent.path, EmptyDict)
             /\ call'.reqs[2] = Req("POST", ent.path, Lowest)
             /\ call'.reqs[3] =
                   Req("POST", ent.path \o <<"roll-hot-buckets">>, EmptyDict)
             /\ \A i \in 4..(last - 1) :
                   call'.reqs[i] = Req("GET", ent.path, EmptyDict)
             /\ call'.reqs[last] = Req("POST", ent.path, saved)
             /\ Cardinality({i \in DOMAIN call'.reqs :
                                call'.reqs[i] = Req("POST", ent.path, saved)}) = 1
             /\ Restrict(srv'.content, DOMAIN Lowest) = saved]_vars

\* a clean that raised its time-out after two refreshes of its wait loop:
\* its last request restored a setting it had lowered from 500
C38_Witness ==
    /\ call.op = "clean" /\ call.outcome = "OperationError"
    /\ Len(call.reqs) = 6
    /\ call.reqs[6].method = "POST"
    /\ call.reqs[6].args.maxTotalDataSizeMB = "500"
    /\ srv.content.maxTotalDataSizeMB = "500"

====
